---- MODULE Spec2Model ----
(***************************************************************************)
(* Verification model of the component registry patcher of Create-MCP:     *)
(* project detection, backup/restore of the registry files, the textual    *)
(* registry patch and the add-component workflow with its CLI wrapper.     *)
(*                                                                         *)
(* Text is modelled character by character on TLA+ strings, with the       *)
(* JavaScript string primitives (0-based indices, -1 for "not found")      *)
(* written out as operators of the same name.                              *)
(***************************************************************************)
EXTENDS Integers, Sequences, FiniteSets, TLC

\* ------------------------------------------------------------------------
\* JavaScript string primitives
\* ------------------------------------------------------------------------

Min(S) == CHOOSE x \in S : \A y \in S : x <= y

Max(S) == CHOOSE x \in S : \A y \in S : x >= y

\* the characters matched by \s (and removed by trim / trimEnd)
WhiteSpace == {" ", "\n", "\t", "\r"}

\* the characters the regex dot does not match
LineTerminator == {"\n", "\r"}

\* s.slice(a, b) for 0 <= a
slice(s, a, b) ==
  LET e == IF b > Len(s) THEN Len(s) ELSE b
  IN IF e <= a THEN "" ELSE SubSeq(s, a + 1, e)

\* s.slice(a)
sliceFrom(s, a) == slice(s, a, Len(s))

\* s.charAt(i)
charAt(s, i) == slice(s, i, i + 1)

\* s.startsWith(lit, i)
startsWithAt(s, lit, i) == i >= 0 /\ i + Len(lit) <= Len(s) /\ slice(s, i, i + Len(lit)) = lit

\* s.indexOf(lit, from)
indexOf(s, lit, from) ==
  LET P == {i \in from..(Len(s) - Len(lit)) : startsWithAt(s, lit, i)}
  IN IF P = {} THEN -1 ELSE Min(P)

\* s.lastIndexOf(lit)
lastIndexOf(s, lit) ==
  LET P == {i \in 0..(Len(s) - Len(lit)) : startsWithAt(s, lit, i)}
  IN IF P = {} THEN -1 ELSE Max(P)

\* s.includes(lit)
includes(s, lit) == indexOf(s, lit, 0) # -1

\* s.endsWith(lit)
endsWith(s, lit) == Len(lit) <= Len(s) /\ sliceFrom(s, Len(s) - Len(lit)) = lit

\* s.trimEnd()
trimEnd(s) ==
  LET P == {i \in 1..Len(s) : SubSeq(s, i, i) \notin WhiteSpace}
  IN IF P = {} THEN "" ELSE SubSeq(s, 1, Max(P))

\* s.trim()
trim(s) ==
  LET P == {i \in 1..Len(s) : SubSeq(s, i, i) \notin WhiteSpace}
  IN IF P = {} THEN "" ELSE SubSeq(s, Min(P), Max(P))

\* index of the first character at or after i that is not white space
skipWs(s, i) ==
  LET P == {j \in i..(Len(s) - 1) : charAt(s, j) \notin WhiteSpace}
  IN IF P = {} THEN Len(s) ELSE Min(P)

\* the number of occurrences of lit in s (overlapping ones included)
countOf(s, lit) == Cardinality({i \in 0..(Len(s) - Len(lit)) : startsWithAt(s, lit, i)})

\* ------------------------------------------------------------------------
\* Regular expressions of the registry patcher
\* ------------------------------------------------------------------------

Quotes == {"'", "\""}

\* /import.*from.*['""];/ anchored at p: the end offset of the (greedy)
\* match, or -1. The dot stays on one line, so the match ends at the last
\* quote-semicolon of the line that has a "from" between it and "import".
importMatchAt(s, p) ==
  IF ~startsWithAt(s, "import", p) THEN -1
  ELSE LET T == {j \in p..(Len(s) - 1) : charAt(s, j) \in LineTerminator}
           L == IF T = {} THEN Len(s) ELSE Min(T)
           F == {f \in (p + 6)..(L - 4) : startsWithAt(s, "from", f)}
           Q == {q \in (p + 10)..(L - 2) :
                   /\ charAt(s, q) \in Quotes
                   /\ charAt(s, q + 1) = ";"
                   /\ \E f \in F : f + 4 <= q}
       IN IF Q = {} THEN -1 ELSE Max(Q) + 2

NoImport == [found |-> FALSE, index |-> -1, end |-> -1]

\* the first match of importRegex at or after offset start
nextImport(s, start) ==
  LET P == {p \in start..(Len(s) - 1) : importMatchAt(s, p) # -1}
  IN IF P = {} THEN NoImport
     ELSE [found |-> TRUE, index |-> Min(P), end |-> importMatchAt(s, Min(P))]

RECURSIVE lastImportFrom(_, _, _)
\* content.match(importRegex) with the g flag, reduced to its last element
lastImportFrom(s, start, prev) ==
  LET m == nextImport(s, start)
  IN IF ~m.found THEN prev ELSE lastImportFrom(s, m.end, m)

\* the first element of content.match(importRegex) in place of the last
firstImportMatch(s) == nextImport(s, 0)

\* imports[imports.length - 1], or NoImport when content.match gives null
lastImportMatch(s) == lastImportFrom(s, 0, NoImport)

RegistryKinds == {"tool", "resource", "prompt"}

\* the name part of initialize<Kinds>
Plural(kind) ==
  CASE kind = "tool" -> "Tools"
    [] kind = "resource" -> "Resources"
    [] kind = "prompt" -> "Prompts"

\* the literal prefix of a call to the kind's collection setter
Setter(kind) ==
  CASE kind = "tool" -> "this.tools.set("
    [] kind = "resource" -> "this.resources.set("
    [] kind = "prompt" -> "this.prompts.set("

\* the text the patcher writes in place of the matched method signature
InitSignature(kind) == "private initialize" \o Plural(kind) \o "(): void {"

NoMatch == [found |-> FALSE, index |-> -1, end |-> -1, body |-> ""]

\* /private\s+initialize<Kinds>\(\):\s*void\s*{([^}]*?)}/s anchored at p
initMatchAt(kind, s, p) ==
  IF ~startsWithAt(s, "private", p) THEN NoMatch
  ELSE LET a == p + 7
           b == skipWs(s, a)
           name == "initialize" \o Plural(kind) \o "():"
       IN IF b = a \/ ~startsWithAt(s, name, b) THEN NoMatch
          ELSE LET c == skipWs(s, b + Len(name))
               IN IF ~startsWithAt(s, "void", c) THEN NoMatch
                  ELSE LET d == skipWs(s, c + 4)
                       IN IF ~startsWithAt(s, "{", d) THEN NoMatch
                          ELSE LET e == indexOf(s, "}", d + 1)
                               IN IF e = -1 THEN NoMatch
                                  ELSE [found |-> TRUE, index |-> p, end |-> e + 1,
                                        body |-> slice(s, d + 1, e)]

\* content.match(initMethodRegex): the leftmost match
initMethodMatch(kind, s) ==
  LET P == {p \in 0..(Len(s) - 1) : initMatchAt(kind, s, p).found}
  IN IF P = {} THEN NoMatch ELSE initMatchAt(kind, s, Min(P))

RECURSIVE expandReplacement(_, _, _, _)
\* the replacement-string patterns of String.prototype.replace for a regex
\* with one capture group: $$, $&, $`, $', $1 and $01; any other $ is literal
expandReplacement(r, i, s, m) ==
  LET d == indexOf(r, "$", i)
  IN IF d = -1 THEN sliceFrom(r, i)
     ELSE LET n == charAt(r, d + 1)
              sub == CASE n = "$" -> "$"
                       [] n = "&" -> slice(s, m.index, m.end)
                       [] n = "`" -> slice(s, 0, m.index)
                       [] n = "'" -> sliceFrom(s, m.end)
                       [] n = "1" -> m.body
                       [] n = "0" /\ charAt(r, d + 2) = "1" -> m.body
                       [] OTHER -> "$"
              used == IF n \in {"$", "&", "`", "'", "1"} THEN 2
                      ELSE IF n = "0" /\ charAt(r, d + 2) = "1" THEN 3 ELSE 1
          IN slice(r, i, d) \o sub \o expandReplacement(r, d + used, s, m)

\* content.replace(initMethodRegex, replacement), m being the regex's match
replace(s, m, replacement) ==
  slice(s, 0, m.index) \o expandReplacement(replacement, 0, s, m) \o sliceFrom(s, m.end)

\* ------------------------------------------------------------------------
\* The registry patch (update<Kind>RegistryWithAutoDiscovery), as a
\* function from the file text read to the file text written
\* ------------------------------------------------------------------------

\* the import step: insert addImport after the last import statement
insertImport(content, addImport) ==
  IF includes(content, addImport) THEN content
  ELSE LET imports == lastImportMatch(content)
       IN IF ~imports.found THEN content
          ELSE LET lastImport == slice(content, imports.index, imports.end)
                   lastImportIndex == lastIndexOf(content, lastImport)
                   insertPosition == lastImportIndex + Len(lastImport)
               IN slice(content, 0, insertPosition) \o "\n" \o addImport
                    \o sliceFrom(content, insertPosition)

\* a patcher that puts the registration at the start of the body
lineEndAtBodyStart(initMethodContent, lastRegistration) == 0

\* indexOf(';', lastRegistration) + 1: 0 when no semicolon follows
lineEnd(initMethodContent, lastRegistration) ==
  indexOf(initMethodContent, ";", lastRegistration) + 1

\* the position in the method body at which the registration is inserted
\* when the body has a call to the setter
insertPosition(kind, initMethodContent) ==
  lineEnd(initMethodContent, lastIndexOf(initMethodContent, Setter(kind)))

\* a patcher that keeps the trailing white space of a body without calls
newInitMethodContentKeepingEnd(kind, initMethodContent, addRegistration) ==
  IF lastIndexOf(initMethodContent, Setter(kind)) # -1
  THEN slice(initMethodContent, 0, insertPosition(kind, initMethodContent))
         \o "\n    " \o addRegistration
         \o sliceFrom(initMethodContent, insertPosition(kind, initMethodContent))
  ELSE initMethodContent \o "\n    " \o addRegistration \o "\n    "

\* the new method body
newInitMethodContent(kind, initMethodContent, addRegistration) ==
  IF lastIndexOf(initMethodContent, Setter(kind)) # -1
  THEN slice(initMethodContent, 0, insertPosition(kind, initMethodContent))
         \o "\n    " \o addRegistration
         \o sliceFrom(initMethodContent, insertPosition(kind, initMethodContent))
  ELSE trimEnd(initMethodContent) \o "\n    " \o addRegistration \o "\n    "

\* the registration step
insertRegistration(kind, content, addRegistration) ==
  LET initMatch == initMethodMatch(kind, content)
  IN IF ~initMatch.found THEN content
     ELSE IF includes(initMatch.body, addRegistration) THEN content
     ELSE replace(content, initMatch,
                  InitSignature(kind)
                    \o newInitMethodContent(kind, initMatch.body, addRegistration)
                    \o "}")

\* the text written back to the registry file
updateRegistryWithAutoDiscovery(kind, content, registryUpdate) ==
  insertRegistration(kind, insertImport(content, registryUpdate.addImport),
                     registryUpdate.addRegistration)

updateToolRegistryWithAutoDiscovery(content, registryUpdate) ==
  updateRegistryWithAutoDiscovery("tool", content, registryUpdate)

updateResourceRegistryWithAutoDiscovery(content, registryUpdate) ==
  updateRegistryWithAutoDiscovery("resource", content, registryUpdate)

updatePromptRegistryWithAutoDiscovery(content, registryUpdate) ==
  updateRegistryWithAutoDiscovery("prompt", content, registryUpdate)

\* the switch of applyRegistryUpdates on update.registryType
applyOneUpdate(content, update) ==
  CASE update.registryType = "tool" -> updateToolRegistryWithAutoDiscovery(content, update)
    [] update.registryType = "resource" -> updateResourceRegistryWithAutoDiscovery(content, update)
    [] update.registryType = "prompt" -> updatePromptRegistryWithAutoDiscovery(content, update)
    [] OTHER -> content

\* ------------------------------------------------------------------------
\* Component kinds and naming conventions (project-detector.ts)
\* ------------------------------------------------------------------------

ComponentTypes == {"tool", "resource", "prompt", "service", "transport", "util"}

UpperLetters == "ABCDEFGHIJKLMNOPQRSTUVWXYZ"

LowerLetters == "abcdefghijklmnopqrstuvwxyz"

Digits == "0123456789"

RECURSIVE mapChars(_, _, _, _)
\* s with every character found in from replaced by its partner in to
mapChars(s, i, from, to) ==
  IF i >= Len(s) THEN ""
  ELSE LET c == charAt(s, i)
           k == indexOf(from, c, 0)
       IN (IF k = -1 THEN c ELSE charAt(to, k)) \o mapChars(s, i + 1, from, to)

\* s.toLowerCase()
toLowerCase(s) == mapChars(s, 0, UpperLetters, LowerLetters)

\* s.toUpperCase()
toUpperCase(s) == mapChars(s, 0, LowerLetters, UpperLetters)

RECURSIVE replaceWs(_, _)
\* s.replace(/\s+/g, '-') from offset i on
replaceWs(s, i) ==
  IF i >= Len(s) THEN ""
  ELSE IF charAt(s, i) \in WhiteSpace THEN "-" \o replaceWs(s, skipWs(s, i))
  ELSE charAt(s, i) \o replaceWs(s, i + 1)

\* name.trim().replace(/\s+/g, '-')
cleanName(name) == replaceWs(trim(name), 0)

\* /^[a-zA-Z][a-zA-Z0-9_-]*$/.test(s)
isIdentifierLike(s) ==
  /\ Len(s) >= 1
  /\ includes(UpperLetters \o LowerLetters, charAt(s, 0))
  /\ \A i \in 1..(Len(s) - 1) :
       includes(UpperLetters \o LowerLetters \o Digits \o "_-", charAt(s, i))

MaxNameLength == 50

reservedWords == {"index", "server", "config", "main", "default", "export", "import"}

\* validateComponentName(name, type).isValid
validateComponentName(name, type) ==
  IF name = "" \/ Len(trim(name)) = 0 THEN FALSE
  ELSE IF ~isIdentifierLike(cleanName(name)) THEN FALSE
  ELSE IF Len(cleanName(name)) > MaxNameLength THEN FALSE
  ELSE IF toLowerCase(cleanName(name)) \in reservedWords THEN FALSE
  ELSE CASE type = "tool" ->
              ~(endsWith(cleanName(name), "-tool") \/ endsWith(cleanName(name), "Tool"))
         [] type = "resource" ->
              ~(endsWith(cleanName(name), "-resource") \/ endsWith(cleanName(name), "Resource"))
         [] type = "prompt" ->
              ~(endsWith(cleanName(name), "-prompt") \/ endsWith(cleanName(name), "Prompt"))
         [] type = "service" ->
              ~(endsWith(cleanName(name), "-service") \/ endsWith(cleanName(name), "Service"))
         [] OTHER -> TRUE

\* getComponentDirectory(type)
getComponentDirectory(type) ==
  CASE type = "tool" -> "tools"
    [] type = "resource" -> "resources"
    [] type = "prompt" -> "prompts"
    [] type = "service" -> "services"
    [] type = "transport" -> "transports"
    [] type = "util" -> "utils"

\* generateRegistryKey(name)
generateRegistryKey(name) == toLowerCase(cleanName(name))

\* generateComponentFileName(name, type)
generateComponentFileName(name, type) ==
  CASE type = "tool" -> toLowerCase(cleanName(name)) \o "-tool.ts"
    [] type = "resource" -> toLowerCase(cleanName(name)) \o "-resource.ts"
    [] type = "prompt" -> toLowerCase(cleanName(name)) \o "-prompt.ts"
    [] type = "service" -> toLowerCase(cleanName(name)) \o ".ts"
    [] type = "transport" -> toLowerCase(cleanName(name)) \o "-transport.ts"
    [] type = "util" -> toLowerCase(cleanName(name)) \o ".ts"
    [] OTHER -> toLowerCase(cleanName(name)) \o ".ts"

\* the separators of name.split(/[-_\s]+/)
WordSeparators == WhiteSpace \cup {"-", "_"}

RECURSIVE splitWords(_, _, _)
\* name.split(/[-_\s]+/) from offset i on, cur being the word read so far
splitWords(s, i, cur) ==
  IF i >= Len(s) THEN <<cur>>
  ELSE IF charAt(s, i) \in WordSeparators
       THEN LET P == {j \in i..(Len(s) - 1) : charAt(s, j) \notin WordSeparators}
                j == IF P = {} THEN Len(s) ELSE Min(P)
            IN <<cur>> \o splitWords(s, j, "")
       ELSE splitWords(s, i + 1, cur \o charAt(s, i))

\* word.charAt(0).toUpperCase() + word.slice(1).toLowerCase()
capitalize(word) == toUpperCase(charAt(word, 0)) \o toLowerCase(sliceFrom(word, 1))

RECURSIVE joinWords(_, _, _)
\* words.map(...).join(''), the first word lower-cased when camel is set
joinWords(words, i, camel) ==
  IF i > Len(words) THEN ""
  ELSE (IF camel /\ i = 1 THEN toLowerCase(words[i]) ELSE capitalize(words[i]))
         \o joinWords(words, i + 1, camel)

\* the suffix generateClassName and generateVariableName append
classSuffix(type) ==
  CASE type = "tool" -> "Tool"
    [] type = "resource" -> "Resource"
    [] type = "prompt" -> "Prompt"
    [] type = "service" -> "Service"
    [] type = "transport" -> "Transport"
    [] OTHER -> ""

\* generateClassName(name, type)
generateClassName(name, type) ==
  joinWords(splitWords(name, 0, ""), 1, FALSE) \o classSuffix(type)

\* generateVariableName(name, type)
generateVariableName(name, type) ==
  joinWords(splitWords(name, 0, ""), 1, TRUE) \o classSuffix(type)

\* ------------------------------------------------------------------------
\* Paths and the file system
\* ------------------------------------------------------------------------
\* A path is the sequence of its segments. The file system is the pair of
\* files (path -> text of a regular file) and dirs (the directories).

\* path.relative(from, to)
relative(from, to) ==
  LET C == {k \in 0..Len(from) : k <= Len(to) /\ SubSeq(from, 1, k) = SubSeq(to, 1, k)}
      k == Max(C)
  IN [i \in 1..(Len(from) - k) |-> ".."] \o SubSeq(to, k + 1, Len(to))

\* path.dirname(p)
dirname(p) == SubSeq(p, 1, Len(p) - 1)

\* p and the directories above it
withParents(p) == {SubSeq(p, 1, k) : k \in 1..Len(p)}

\* fs.pathExists(p)
pathExists(fl, ds, p) == p \in DOMAIN fl \/ p \in ds

\* the directories after fs.ensureDir(p)
ensureDir(ds, p) == ds \cup withParents(p)

\* the files after fs.writeFile(p, text)
writeFile(fl, p, text) == (p :> text) @@ fl

\* the files after fs.copy(from, to), which overwrites the destination
copy(fl, from, to) == (to :> fl[from]) @@ fl

\* the texts a file can be left with when writing newText to it fails:
\* untouched, or truncated
afterFailedWrite(old) == {old, ""}

\* ------------------------------------------------------------------------
\* Project detection (detectMcpProject)
\* ------------------------------------------------------------------------

SdkPackage == "@modelcontextprotocol/sdk"

ManifestInDependencies ==
  "{\"name\":\"demo\",\"dependencies\":{\"@modelcontextprotocol/sdk\":\"^1.0.0\"}}"

ManifestInDevDependencies ==
  "{\"devDependencies\":{\"@modelcontextprotocol/sdk\":\"^1.0.0\"}}"

ManifestOtherDependency == "{\"name\":\"demo\",\"dependencies\":{\"express\":\"^4.0.0\"}}"

ManifestNoDependencies == "{\"name\":\"demo\"}"

ManifestMalformed == "{\"name\":"

ManifestNull == "null"

ManifestTexts ==
  { ManifestInDependencies, ManifestInDevDependencies, ManifestOtherDependency,
    ManifestNoDependencies, ManifestMalformed, ManifestNull }

\* JSON.parse on the manifest texts above: threw for a syntax error, isNull
\* for the JSON value null, else the fields detection reads
parseJson(text) ==
  CASE text = ManifestInDependencies ->
         [threw |-> FALSE, isNull |-> FALSE, name |-> "demo",
          dependencies |-> {SdkPackage}, devDependencies |-> {}]
    [] text = ManifestInDevDependencies ->
         [threw |-> FALSE, isNull |-> FALSE, name |-> "",
          dependencies |-> {}, devDependencies |-> {SdkPackage}]
    [] text = ManifestOtherDependency ->
         [threw |-> FALSE, isNull |-> FALSE, name |-> "demo",
          dependencies |-> {"express"}, devDependencies |-> {}]
    [] text = ManifestNoDependencies ->
         [threw |-> FALSE, isNull |-> FALSE, name |-> "demo",
          dependencies |-> {}, devDependencies |-> {}]
    [] text = ManifestNull ->
         [threw |-> FALSE, isNull |-> TRUE, name |-> "",
          dependencies |-> {}, devDependencies |-> {}]
    [] OTHER ->
         [threw |-> TRUE, isNull |-> FALSE, name |-> "",
          dependencies |-> {}, devDependencies |-> {}]

\* fs.readJson(p): reading a directory raises, as does a syntax error
readJson(fl, ds, p) ==
  IF p \notin DOMAIN fl
  THEN [threw |-> TRUE, isNull |-> FALSE, name |-> "",
        dependencies |-> {}, devDependencies |-> {}]
  ELSE parseJson(fl[p])

\* a detection that takes every manifest for an MCP server's
hasMcpSdkAlways(packageJson) == TRUE

\* hasMcpSdk of detectMcpProject: the key is in the merged dependencies
hasMcpSdk(packageJson) ==
  SdkPackage \in (packageJson.dependencies \cup packageJson.devDependencies)

requiredFiles ==
  << <<"server.ts">>, <<"core", "mcp-server.ts">>, <<"tools", "index.ts">>,
     <<"resources", "index.ts">>, <<"prompts", "index.ts">> >>

\* the body of the try block of detectMcpProject: threw when an error
\* leaves the block, else the context it returns
inspectProject(fl, ds, targetPath) ==
  LET context == [threw |-> FALSE, isValidProject |-> FALSE, projectPath |-> targetPath,
                  srcPath |-> targetPath \o <<"src">>, projectName |-> ""]
      packageJsonPath == targetPath \o <<"package.json">>
  IN IF ~pathExists(fl, ds, packageJsonPath) THEN context
     ELSE LET packageJson == readJson(fl, ds, packageJsonPath)
          IN IF packageJson.threw \/ packageJson.isNull
             THEN [context EXCEPT !.threw = TRUE]
             ELSE LET named == [context EXCEPT !.projectName =
                                   IF packageJson.name # "" THEN packageJson.name
                                   ELSE targetPath[Len(targetPath)]]
                  IN IF ~hasMcpSdk(packageJson) THEN named
                     ELSE IF ~pathExists(fl, ds, named.srcPath) THEN named
                     ELSE IF \E i \in 1..Len(requiredFiles) :
                               ~pathExists(fl, ds, named.srcPath \o requiredFiles[i])
                          THEN named
                     ELSE [named EXCEPT !.isValidProject = TRUE]

\* a detection without its try/catch: the error reaches the caller
detectWithoutCatch(fl, ds, targetPath) ==
  LET r == inspectProject(fl, ds, targetPath)
  IN [raised |-> r.threw, caught |-> FALSE,
      isValidProject |-> r.isValidProject,
      projectPath |-> r.projectPath, srcPath |-> r.srcPath,
      projectName |-> r.projectName]

\* detectMcpProject(targetPath): raised when an error reaches the caller,
\* caught when the catch block ran
detectMcpProject(fl, ds, targetPath) ==
  LET r == inspectProject(fl, ds, targetPath)
  IN [raised |-> FALSE, caught |-> r.threw,
      isValidProject |-> IF r.threw THEN FALSE ELSE r.isValidProject,
      projectPath |-> r.projectPath, srcPath |-> r.srcPath,
      projectName |-> r.projectName]

\* an existence check that finds nothing
checkComponentExistsNever(fl, ds, projectContext, componentType, componentName) == FALSE

\* checkComponentExists(projectContext, componentType, componentName).exists
checkComponentExists(fl, ds, projectContext, componentType, componentName) ==
  pathExists(fl, ds,
             projectContext.srcPath
               \o <<getComponentDirectory(componentType),
                    generateComponentFileName(componentName, componentType)>>)

\* ------------------------------------------------------------------------
\* Backup and restore of the registry files
\* ------------------------------------------------------------------------

\* new Date().toISOString().replace(/[:.]/g, '-') of the run: one path
\* segment, different for every run
timestamp(run) == "2026-01-01T00-00-0" \o ToString(run) \o "-000Z"

\* backupDir of backupRegistryFiles
backupDirOf(projectContext, run) ==
  projectContext.projectPath \o <<".mcp-backups", timestamp(run)>>

\* registryFiles of backupRegistryFiles
registryFiles(projectContext) ==
  << projectContext.srcPath \o <<"tools", "index.ts">>,
     projectContext.srcPath \o <<"resources", "index.ts">>,
     projectContext.srcPath \o <<"prompts", "index.ts">> >>

\* backupPath of a registry file
backupPathOf(projectContext, run, filePath) ==
  backupDirOf(projectContext, run) \o relative(projectContext.srcPath, filePath)

\* the registry files that exist, in the order the loop visits them
existingRegistryFiles(fl, ds, projectContext) ==
  SelectSeq(registryFiles(projectContext), LAMBDA f : pathExists(fl, ds, f))

\* the value backupRegistryFiles returns
backupPathsOf(fl, ds, projectContext, run) ==
  LET ex == existingRegistryFiles(fl, ds, projectContext)
  IN [i \in 1..Len(ex) |-> backupPathOf(projectContext, run, ex[i])]

RECURSIVE backupFiles(_, _, _, _, _)
\* the files after the first n copies of backupRegistryFiles
backupFiles(fl, ds, projectContext, run, n) ==
  IF n = 0 THEN fl
  ELSE LET ex == existingRegistryFiles(fl, ds, projectContext)
       IN copy(backupFiles(fl, ds, projectContext, run, n - 1),
               ex[n], backupPathOf(projectContext, run, ex[n]))

\* the directories after ensureDir(backupDir) and the first n copies
backupDirs(fl, ds, projectContext, run, n) ==
  LET ex == existingRegistryFiles(fl, ds, projectContext)
  IN ensureDir(ds, backupDirOf(projectContext, run))
       \cup UNION {withParents(dirname(backupPathOf(projectContext, run, ex[i]))) : i \in 1..n}

\* a restore that keeps the timestamp segment in the path
originalPathWithTimestamp(projectContext, backupPath) ==
  projectContext.srcPath
    \o relative(projectContext.projectPath \o <<".mcp-backups">>, backupPath)

\* the original path restoreRegistryFiles writes a backup back to: the
\* path relative to .mcp-backups without its first (timestamp) segment
originalPathOf(projectContext, backupPath) ==
  projectContext.srcPath
    \o Tail(relative(projectContext.projectPath \o <<".mcp-backups">>, backupPath))

\* a restore that copies nothing back
restoreNothing(fl, projectContext, backupPaths, n) == fl

RECURSIVE restoreFiles(_, _, _, _)
\* the files after the first n copies of restoreRegistryFiles
restoreFiles(fl, projectContext, backupPaths, n) ==
  IF n = 0 THEN fl
  ELSE copy(restoreFiles(fl, projectContext, backupPaths, n - 1),
            backupPaths[n], originalPathOf(projectContext, backupPaths[n]))

\* ------------------------------------------------------------------------
\* The index update (updateComponentIndex)
\* ------------------------------------------------------------------------

componentsWithIndex == {"tool", "resource", "prompt"}

\* indexUpdateContent.match(/export\s*{\s*([^}]+)\s*}/)?.[1]?.trim(),
\* "" when there is no match
exportNameAt(text, p) ==
  IF ~startsWithAt(text, "export", p) THEN ""
  ELSE LET a == skipWs(text, p + 6)
       IN IF ~startsWithAt(text, "{", a) THEN ""
          ELSE LET e == indexOf(text, "}", a + 1)
               IN IF e = -1 \/ e = a + 1 THEN "" ELSE trim(slice(text, a + 1, e))

exportNameOf(text) ==
  LET P == {p \in 0..(Len(text) - 1) :
              /\ startsWithAt(text, "export", p)
              /\ startsWithAt(text, "{", skipWs(text, p + 6))
              /\ indexOf(text, "}", skipWs(text, p + 6) + 1) > skipWs(text, p + 6) + 1}
  IN IF P = {} THEN "" ELSE exportNameAt(text, Min(P))

\* whether updateComponentIndex returns without writing
indexAlreadyExports(currentContent, indexUpdateContent) ==
  exportNameOf(indexUpdateContent) # "" /\ includes(currentContent, exportNameOf(indexUpdateContent))

\* updatedContent of updateComponentIndex
updatedIndexContent(currentContent, indexUpdateContent) ==
  trim(currentContent) \o "\n" \o indexUpdateContent \o "\n"

\* ------------------------------------------------------------------------
\* The component template generator (contract of spec 4.2)
\* ------------------------------------------------------------------------

\* the module a component file is imported from
moduleOf(name, type) ==
  LET f == generateComponentFileName(name, type)
  IN "./" \o slice(f, 0, Len(f) - 3) \o ".js"

\* generateComponentTemplate(type, name, options)
generateComponentTemplate(type, name) ==
  [componentType |-> type,
   templateContent |-> "export class " \o generateClassName(name, type) \o " {}\n",
   indexUpdateContent |->
     IF type \in componentsWithIndex
     THEN "export { " \o generateClassName(name, type) \o " } from '" \o moduleOf(name, type) \o "';"
     ELSE "",
   registryUpdates |->
     IF type \in componentsWithIndex
     THEN << [registryType |-> type,
              addImport |-> "import { " \o generateClassName(name, type) \o " } from '"
                              \o moduleOf(name, type) \o "';",
              addInitialization |-> "",
              addRegistration |-> "this." \o getComponentDirectory(type) \o ".set('"
                                    \o generateRegistryKey(name) \o "', new "
                                    \o generateClassName(name, type) \o "());"] >>
     ELSE << >>]

\* ------------------------------------------------------------------------
\* Registry texts and registry updates the patch is exercised on
\* ------------------------------------------------------------------------

\* the number of times the same update is applied to one file
MaxPatches == 2

\* the collection a registry of the kind keeps its components in
Collection(kind) ==
  CASE kind = "tool" -> "tools"
    [] kind = "resource" -> "resources"
    [] kind = "prompt" -> "prompts"

\* a registration statement of the kind, as it stands in registry files
SetCall(kind, key, value) ==
  "this." \o Collection(kind) \o ".set('" \o key \o "', " \o value \o ");"

\* what stands before the method: nothing, import lines, import lines the
\* last of which has no semicolon, or a class header and no import
ImportBlocks ==
  { "",
    "import { a } from './a.js';\n",
    "import { a } from './a.js';\nimport { c } from \"./c.js\";\n\n",
    "import { a } from './a.js';\nimport { c } from './c.js'\n",
    "export class Registry {\n" }

\* the signature the generated registries have, an abbreviated one, and
\* the generated one with other white space
Signatures(kind) ==
  { "private initialize" \o Plural(kind) \o "(): void {",
    "initialize" \o Plural(kind) \o "(){",
    "private  initialize" \o Plural(kind) \o "():void\n{" }

Bodies(kind) ==
  { " " \o SetCall(kind, "a", "fn") \o " ",
    "\n    " \o SetCall(kind, "a", "fa") \o "\n    " \o SetCall(kind, "c", "fc") \o "\n  ",
    "\n    // nothing registered yet\n  ",
    "\n    this." \o Collection(kind) \o ".set('a', fa)\n  ",
    "",
    "\n    if (on) { " \o SetCall(kind, "a", "fa") \o " }\n  " }

RegistryTexts(kind) ==
  { i \o g \o b \o "}" : i \in ImportBlocks, g \in Signatures(kind), b \in Bodies(kind) }

RegistryUpdates(kind) ==
  { [registryType |-> kind, addImport |-> "import { b } from './b.js';",
     addInitialization |-> "", addRegistration |-> SetCall(kind, "b", "fn2")],
    [registryType |-> kind, addImport |-> "import { d } from './d.js';",
     addInitialization |-> "", addRegistration |-> SetCall(kind, "d", "{ run: fd }")],
    [registryType |-> kind, addImport |-> "import { a } from './a.js';",
     addInitialization |-> "", addRegistration |-> SetCall(kind, "a", "fn")] }

\* the registry file and the update of the end-to-end scenario
ScenarioUpdate ==
  [registryType |-> "tool", addImport |-> "import { b } from './b.js';",
   addInitialization |-> "", addRegistration |-> "this.tools.set('b', fn2);"]

\* the project directory the command is run in (process.cwd())
ProjectPath == <<"proj">>

\* the registry file a generated project has for a kind
GeneratedRegistry(kind) ==
  "import { a } from './a.js';\n\nprivate initialize" \o Plural(kind)
    \o "(): void {\n    " \o SetCall(kind, "a", "a") \o "\n  }\n"

\* the component type and name arguments given to the add command
CliTypes == ComponentTypes \cup {"widget"}

CliNames == {"foo", "My Thing", "my-tool", "9lives"}

\* the states of package.json: absent, a directory, or a file with a text
ManifestStates == ManifestTexts \cup {"<absent>", "<directory>"}

\* what a project lacks: nothing, the src root, or one required file
MissingStates == {"none", "src", "server.ts", "mcp-server.ts", "tools", "resources", "prompts"}

\* the text of a file of the project tree
ProjectFileText(path) ==
  IF Len(path) = 4 /\ path[4] = "index.ts" /\ path[3] = "tools" THEN GeneratedRegistry("tool")
  ELSE IF Len(path) = 4 /\ path[4] = "index.ts" /\ path[3] = "resources" THEN GeneratedRegistry("resource")
  ELSE IF Len(path) = 4 /\ path[4] = "index.ts" /\ path[3] = "prompts" THEN GeneratedRegistry("prompt")
  ELSE "// " \o path[Len(path)] \o "\n"

\* the source files of a project that lacks `missing`, with a tool
\* component foo already there when hasFoo
ProjectSourcePaths(missing, hasFoo) ==
  IF missing = "src" THEN {}
  ELSE {ProjectPath \o <<"src">> \o requiredFiles[i] :
          i \in {j \in 1..Len(requiredFiles) :
                   missing \notin {requiredFiles[j][1], requiredFiles[j][Len(requiredFiles[j])]}}}
         \cup (IF hasFoo THEN {ProjectPath \o <<"src", "tools", "foo-tool.ts">>} ELSE {})

\* the files of a project directory with the manifest in the given state
LayoutFiles(manifest, missing, hasFoo) ==
  LET sources == ProjectSourcePaths(missing, hasFoo)
      present == sources \cup (IF manifest \in ManifestTexts
                                THEN {ProjectPath \o <<"package.json">>} ELSE {})
  IN [q \in present |->
        IF q = ProjectPath \o <<"package.json">> THEN manifest
        ELSE ProjectFileText(q)]

\* the directories of that project directory
LayoutDirs(manifest, missing, hasFoo) ==
  LET sources == ProjectSourcePaths(missing, hasFoo)
  IN {ProjectPath}
       \cup (IF manifest = "<directory>"
             THEN {ProjectPath \o <<"package.json">>} ELSE {})
       \cup (IF missing = "src" THEN {}
             ELSE {ProjectPath \o <<"src">>}
                    \cup UNION {withParents(dirname(q)) : q \in sources})

VARIABLES
  regKind, regOriginal, regUpdate, regContent, regPrev, patches,
  files, dirs, run, pc, exitCode, config, projectContext, template,
  backupPaths, nextUpdate, failedStep, restore, result, preFiles, preDirs,
  checkedName, checkedType, validation, derived,
  indexOriginal, indexFragment, indexContent, indexPrev, indexRuns,
  listIndex, partial,
  history, conc, gen

patchVars == <<regKind, regOriginal, regUpdate, regContent, regPrev, patches>>

fsVars == <<files, dirs>>

addVars == <<run, pc, exitCode, config, projectContext, template,
             backupPaths, nextUpdate, failedStep, restore, result, preFiles, preDirs>>

\* the name under validation and the verdict on it
nameVars == <<checkedName, checkedType, validation, derived>>

\* an index file under updateComponentIndex
indexVars == <<indexOriginal, indexFragment, indexContent, indexPrev, indexRuns>>

\* the state of the operations outside the add command: name validation,
\* the index update on its own, the loop of the list command, and the
\* part of a patch an earlier run left in the file
\* the outcomes of the earlier runs, the invocations that run
\* concurrently, and a run of the project generator
extraVars == <<history, conc, gen>>

sideVars == <<nameVars, indexVars, listIndex, partial, extraVars>>

vars == <<patchVars, fsVars, addVars, sideVars>>

\* no names derived yet
NoNames == [done |-> FALSE, fileName |-> "", className |-> "", variableName |-> "",
            registryKey |-> ""]

\* no name under validation
NameIdle ==
  /\ checkedName = ""
  /\ checkedType = "tool"
  /\ validation = "off"
  /\ derived = NoNames

\* no index file under update
IndexIdle ==
  /\ indexOriginal = ""
  /\ indexFragment = ""
  /\ indexContent = ""
  /\ indexPrev = ""
  /\ indexRuns = 0

\* none of the side operations is running
\* the invocations that may run concurrently
Invocations == {1, 2}

\* no invocation is running
NoInvocation == [pc |-> "off", read |-> "", backupPaths |-> << >>]

\* no generator run
NoGeneration == [pc |-> "off", transportTypes |-> "both", includeExamples |-> TRUE,
                 skipInstall |-> TRUE, error |-> "none", preFiles |-> << >>, preDirs |-> {}]

\* no earlier run, no concurrent invocation and no generator run
ExtraIdle ==
  /\ history = << >>
  /\ conc = [i \in Invocations |-> NoInvocation]
  /\ gen = NoGeneration

SideIdle ==
  /\ NameIdle
  /\ IndexIdle
  /\ listIndex = 0
  /\ partial = "none"
  /\ ExtraIdle

NoConfig == [componentType |-> "", componentName |-> "", skipValidation |-> FALSE]

NoContext == [raised |-> FALSE, caught |-> FALSE, isValidProject |-> FALSE,
              projectPath |-> << >>, srcPath |-> << >>, projectName |-> ""]

NoTemplate == [componentType |-> "", templateContent |-> "", indexUpdateContent |-> "",
               registryUpdates |-> << >>]

\* no registry text under patch (the add workflow's specification)
PatchIdle ==
  /\ regKind = "tool"
  /\ regOriginal = ""
  /\ regUpdate = ScenarioUpdate
  /\ regContent = ""
  /\ regPrev = ""
  /\ patches = MaxPatches

\* no project and no command (the patch function's specification)
AddIdle ==
  /\ files = << >>
  /\ dirs = {}
  /\ run = 0
  /\ pc = "off"
  /\ exitCode = -1
  /\ config = NoConfig
  /\ projectContext = NoContext
  /\ template = NoTemplate
  /\ backupPaths = << >>
  /\ nextUpdate = 1
  /\ failedStep = "none"
  /\ restore = "none"
  /\ result = "none"
  /\ preFiles = << >>
  /\ preDirs = {}

\* a registry file and an update for it; nothing patched yet
PatchInit ==
  /\ regKind \in RegistryKinds
  /\ regOriginal \in RegistryTexts(regKind)
  /\ regUpdate \in RegistryUpdates(regKind)
  /\ regContent = regOriginal
  /\ regPrev = regOriginal
  /\ patches = 0
  /\ AddIdle
  /\ SideIdle

\* one run of update<Kind>RegistryWithAutoDiscovery on the file
Patch ==
  /\ patches < MaxPatches
  /\ pc = "off"
  /\ regContent' = applyOneUpdate(regContent, regUpdate)
  /\ regPrev' = regContent
  /\ patches' = patches + 1
  /\ UNCHANGED <<regKind, regOriginal, regUpdate, fsVars, addVars, sideVars>>

PatchNext == Patch

SpecPatch == PatchInit /\ [][PatchNext]_vars

\* ------------------------------------------------------------------------
\* The add command (cli/index.ts) and the add workflow (addComponent)
\* ------------------------------------------------------------------------

\* a project directory, and no command run yet
Init ==
  /\ PatchIdle
  /\ SideIdle
  /\ \E manifest \in ManifestStates, missing \in MissingStates, hasFoo \in BOOLEAN :
       /\ files = LayoutFiles(manifest, missing, hasFoo)
       /\ dirs = LayoutDirs(manifest, missing, hasFoo)
  /\ run = 1
  /\ pc = "cli"
  /\ exitCode = -1
  /\ config = NoConfig
  /\ projectContext = NoContext
  /\ template = NoTemplate
  /\ backupPaths = << >>
  /\ nextUpdate = 1
  /\ failedStep = "none"
  /\ restore = "none"
  /\ result = "none"
  /\ preFiles = files
  /\ preDirs = dirs

\* validTypes.includes(componentType) fails: process.exit(1)
CliInvalidType ==
  /\ pc = "cli"
  /\ \E type \in CliTypes \ ComponentTypes, name \in CliNames, skip \in BOOLEAN :
       config' = [componentType |-> type, componentName |-> name, skipValidation |-> skip]
  /\ exitCode' = 1
  /\ pc' = "exited"
  /\ UNCHANGED <<patchVars, sideVars, fsVars, run, projectContext, template, backupPaths,
                 nextUpdate, failedStep, restore, result, preFiles, preDirs>>

\* validateComponentName fails and --skip-validation is not given:
\* process.exit(1)
CliInvalidName ==
  /\ pc = "cli"
  /\ \E type \in ComponentTypes, name \in CliNames :
       /\ ~validateComponentName(name, type)
       /\ config' = [componentType |-> type, componentName |-> name, skipValidation |-> FALSE]
  /\ exitCode' = 1
  /\ pc' = "exited"
  /\ UNCHANGED <<patchVars, sideVars, fsVars, run, projectContext, template, backupPaths,
                 nextUpdate, failedStep, restore, result, preFiles, preDirs>>

\* confirmComponentConfig is answered with no: process.exit(0)
CliCancelled ==
  /\ pc = "cli"
  /\ \E type \in ComponentTypes, name \in CliNames, skip \in BOOLEAN :
       /\ skip \/ validateComponentName(name, type)
       /\ config' = [componentType |-> type, componentName |-> name, skipValidation |-> skip]
  /\ exitCode' = 0
  /\ pc' = "exited"
  /\ UNCHANGED <<patchVars, sideVars, fsVars, run, projectContext, template, backupPaths,
                 nextUpdate, failedStep, restore, result, preFiles, preDirs>>

\* the checks pass and the configuration is confirmed: addComponent is called
CliConfirmed ==
  /\ pc = "cli"
  /\ \E type \in ComponentTypes, name \in CliNames, skip \in BOOLEAN :
       /\ skip \/ validateComponentName(name, type)
       /\ config' = [componentType |-> type, componentName |-> name, skipValidation |-> skip]
  /\ pc' = "detect"
  /\ UNCHANGED <<patchVars, sideVars, fsVars, run, exitCode, projectContext, template, backupPaths,
                 nextUpdate, failedStep, restore, result, preFiles, preDirs>>

\* detectMcpProject and the isValidProject test of addComponent
Detect ==
  /\ pc = "detect"
  /\ projectContext' = detectMcpProject(files, dirs, ProjectPath)
  /\ IF projectContext'.raised
     THEN pc' = "catch" /\ failedStep' = "detect" /\ result' = result
     ELSE IF ~projectContext'.isValidProject
     THEN pc' = "returned" /\ result' = "notProject" /\ failedStep' = failedStep
     ELSE pc' = "checkExists" /\ result' = result /\ failedStep' = failedStep
  /\ UNCHANGED <<patchVars, sideVars, fsVars, run, exitCode, config, template, backupPaths,
                 nextUpdate, restore, preFiles, preDirs>>

\* checkComponentExists and the exists test of addComponent
CheckExists ==
  /\ pc = "checkExists"
  /\ IF checkComponentExists(files, dirs, projectContext,
                             config.componentType, config.componentName)
     THEN pc' = "returned" /\ result' = "exists"
     ELSE pc' = "generate" /\ result' = result
  /\ UNCHANGED <<patchVars, sideVars, fsVars, run, exitCode, config, projectContext, template,
                 backupPaths, nextUpdate, failedStep, restore, preFiles, preDirs>>

\* a registry update of a template for a second registry
secondUpdate(type, name) ==
  [registryType |-> "resource",
   addImport |-> "import { " \o generateClassName(name, type) \o " } from '../tools/"
                   \o sliceFrom(moduleOf(name, type), 2) \o "';",
   addInitialization |-> "",
   addRegistration |-> "this.resources.set('" \o generateRegistryKey(name) \o "', new "
                         \o generateClassName(name, type) \o "());"]

\* the templates the generator may hand to the workflow: registryUpdates
\* is a list, and a tool template may carry an update for a second registry
templatesFor(type, name) ==
  {generateComponentTemplate(type, name)}
    \cup (IF type = "tool"
          THEN {[generateComponentTemplate(type, name) EXCEPT
                   !.registryUpdates = Append(@, secondUpdate(type, name))]}
          ELSE {})

\* generateComponentTemplate
Generate ==
  /\ pc = "generate"
  /\ template' \in templatesFor(config.componentType, config.componentName)
  /\ pc' = "backup"
  /\ UNCHANGED <<patchVars, sideVars, fsVars, run, exitCode, config, projectContext,
                 backupPaths, nextUpdate, failedStep, restore, result, preFiles, preDirs>>

\* a workflow that goes on to the component write without a snapshot
BackupNothing ==
  /\ pc = "backup"
  /\ pc' = "write"
  /\ UNCHANGED <<patchVars, sideVars, fsVars, run, exitCode, config, projectContext,
                 template, backupPaths, nextUpdate, failedStep, restore, result,
                 preFiles, preDirs>>

\* a snapshot that moves the registry files into the backup directory
BackupMovingFiles ==
  /\ pc = "backup"
  /\ LET n == Len(existingRegistryFiles(files, dirs, projectContext))
         copied == backupFiles(files, dirs, projectContext, run, n)
         moved == {existingRegistryFiles(files, dirs, projectContext)[i] : i \in 1..n}
     IN /\ files' = [p \in DOMAIN copied \ moved |-> copied[p]]
        /\ dirs' = backupDirs(files, dirs, projectContext, run, n)
  /\ backupPaths' = backupPathsOf(files, dirs, projectContext, run)
  /\ pc' = "write"
  /\ UNCHANGED <<patchVars, sideVars, run, exitCode, config, projectContext, template,
                 nextUpdate, failedStep, restore, result, preFiles, preDirs>>

\* backupRegistryFiles returns
Backup ==
  /\ pc = "backup"
  /\ LET n == Len(existingRegistryFiles(files, dirs, projectContext))
     IN /\ files' = backupFiles(files, dirs, projectContext, run, n)
        /\ dirs' = backupDirs(files, dirs, projectContext, run, n)
  /\ backupPaths' = backupPathsOf(files, dirs, projectContext, run)
  /\ pc' = "write"
  /\ UNCHANGED <<patchVars, sideVars, run, exitCode, config, projectContext, template,
                 nextUpdate, failedStep, restore, result, preFiles, preDirs>>

\* backupRegistryFiles throws: in ensureDir(backupDir) (n = -1) or in the
\* copy after n copies; backupPaths of addComponent is not assigned
BackupFails ==
  /\ pc = "backup"
  /\ \E n \in -1..(Len(existingRegistryFiles(files, dirs, projectContext)) - 1) :
       IF n = -1
       THEN UNCHANGED fsVars
       ELSE /\ files' = backupFiles(files, dirs, projectContext, run, n)
            /\ dirs' = backupDirs(files, dirs, projectContext, run, n + 1)
  /\ failedStep' = "backup"
  /\ pc' = "catch"
  /\ UNCHANGED <<patchVars, sideVars, run, exitCode, config, projectContext, template,
                 backupPaths, nextUpdate, restore, result, preFiles, preDirs>>

\* componentDir and filePath of addComponent
componentDirOf(projectContext_, componentType) ==
  projectContext_.srcPath \o <<getComponentDirectory(componentType)>>

\* a component path built from the name as given, not normalised
componentPathUnnormalised(projectContext_, componentType, componentName) ==
  componentDirOf(projectContext_, componentType)
    \o <<componentName
          \o sliceFrom(generateComponentFileName(componentName, componentType),
                       Len(toLowerCase(cleanName(componentName))))>>

componentPathOf(projectContext_, componentType, componentName) ==
  componentDirOf(projectContext_, componentType)
    \o <<generateComponentFileName(componentName, componentType)>>

\* ensureDir(componentDir) and writeFile(filePath, templateContent)
WriteComponentFile ==
  /\ pc = "write"
  /\ dirs' = ensureDir(dirs, componentDirOf(projectContext, config.componentType))
  /\ files' = writeFile(files,
                        componentPathOf(projectContext, config.componentType, config.componentName),
                        template.templateContent)
  /\ pc' = "updateIndex"
  /\ UNCHANGED <<patchVars, sideVars, run, exitCode, config, projectContext, template, backupPaths,
                 nextUpdate, failedStep, restore, result, preFiles, preDirs>>

\* ensureDir(componentDir) throws, or writeFile throws and leaves no file
\* or a truncated one
WriteComponentFileFails ==
  /\ pc = "write"
  /\ \/ UNCHANGED fsVars
     \/ /\ dirs' = ensureDir(dirs, componentDirOf(projectContext, config.componentType))
        /\ \/ files' = files
           \/ files' = writeFile(files,
                                 componentPathOf(projectContext, config.componentType,
                                                 config.componentName), "")
  /\ failedStep' = "write"
  /\ pc' = "catch"
  /\ UNCHANGED <<patchVars, sideVars, run, exitCode, config, projectContext, template, backupPaths,
                 nextUpdate, restore, result, preFiles, preDirs>>

\* indexPath of updateComponentIndex
indexPathOf(projectContext_, componentType) ==
  projectContext_.srcPath \o <<getComponentDirectory(componentType), "index.ts">>

\* updateComponentIndex returns or throws "Index file not found"
UpdateIndex ==
  /\ pc = "updateIndex"
  /\ LET indexPath == indexPathOf(projectContext, config.componentType)
     IN IF config.componentType \notin componentsWithIndex
        THEN pc' = "patch" /\ failedStep' = failedStep /\ UNCHANGED fsVars
        ELSE IF ~pathExists(files, dirs, indexPath)
        THEN pc' = "catch" /\ failedStep' = "updateIndex" /\ UNCHANGED fsVars
        ELSE IF indexAlreadyExports(files[indexPath], template.indexUpdateContent)
        THEN pc' = "patch" /\ failedStep' = failedStep /\ UNCHANGED fsVars
        ELSE /\ files' = writeFile(files, indexPath,
                                   updatedIndexContent(files[indexPath],
                                                       template.indexUpdateContent))
             /\ dirs' = dirs
             /\ pc' = "patch"
             /\ failedStep' = failedStep
  /\ UNCHANGED <<patchVars, sideVars, run, exitCode, config, projectContext, template, backupPaths,
                 nextUpdate, restore, result, preFiles, preDirs>>

\* readFile or writeFile of updateComponentIndex throws
UpdateIndexFails ==
  /\ pc = "updateIndex"
  /\ config.componentType \in componentsWithIndex
  /\ LET indexPath == indexPathOf(projectContext, config.componentType)
     IN /\ indexPath \in DOMAIN files
        /\ \/ UNCHANGED fsVars
           \/ /\ ~indexAlreadyExports(files[indexPath], template.indexUpdateContent)
              /\ \E text \in afterFailedWrite(files[indexPath]) :
                   files' = writeFile(files, indexPath, text)
              /\ dirs' = dirs
  /\ failedStep' = "updateIndex"
  /\ pc' = "catch"
  /\ UNCHANGED <<patchVars, sideVars, run, exitCode, config, projectContext, template, backupPaths,
                 nextUpdate, restore, result, preFiles, preDirs>>

\* registryPath of update<Kind>RegistryWithAutoDiscovery
registryPathOf(projectContext_, update) ==
  projectContext_.srcPath \o <<getComponentDirectory(update.registryType), "index.ts">>

\* an iteration that writes a registry file it did not find
ApplyRegistryUpdateCreating ==
  /\ pc = "patch"
  /\ nextUpdate <= Len(template.registryUpdates)
  /\ LET update == template.registryUpdates[nextUpdate]
         registryPath == registryPathOf(projectContext, update)
         content == IF registryPath \in DOMAIN files THEN files[registryPath] ELSE ""
     IN /\ files' = writeFile(files, registryPath, applyOneUpdate(content, update))
        /\ dirs' = ensureDir(dirs, dirname(registryPath))
  /\ nextUpdate' = nextUpdate + 1
  /\ UNCHANGED <<patchVars, sideVars, run, pc, exitCode, config, projectContext, template,
                 backupPaths, failedStep, restore, result, preFiles, preDirs>>

\* one iteration of the loop of applyRegistryUpdates: the update is
\* applied, or the registry file is not found and the error is thrown on
ApplyRegistryUpdate ==
  /\ pc = "patch"
  /\ nextUpdate <= Len(template.registryUpdates)
  /\ LET update == template.registryUpdates[nextUpdate]
         registryPath == registryPathOf(projectContext, update)
     IN IF ~pathExists(files, dirs, registryPath)
        THEN /\ pc' = "catch" /\ failedStep' = "patch"
             /\ nextUpdate' = nextUpdate /\ UNCHANGED fsVars
        ELSE /\ files' = writeFile(files, registryPath,
                                   applyOneUpdate(files[registryPath], update))
             /\ dirs' = dirs
             /\ nextUpdate' = nextUpdate + 1
             /\ pc' = pc /\ failedStep' = failedStep
  /\ UNCHANGED <<patchVars, sideVars, run, exitCode, config, projectContext, template, backupPaths,
                 restore, result, preFiles, preDirs>>

\* a failed registry update that is swallowed: the loop goes on to the next
ApplyRegistryUpdateFailsThenContinues ==
  /\ pc = "patch"
  /\ nextUpdate <= Len(template.registryUpdates)
  /\ LET registryPath == registryPathOf(projectContext, template.registryUpdates[nextUpdate])
     IN /\ registryPath \in DOMAIN files
        /\ \E text \in afterFailedWrite(files[registryPath]) :
             files' = writeFile(files, registryPath, text)
        /\ dirs' = dirs
  /\ failedStep' = "patch"
  /\ nextUpdate' = nextUpdate + 1
  /\ pc' = pc
  /\ UNCHANGED <<patchVars, sideVars, run, exitCode, config, projectContext, template, backupPaths,
                 restore, result, preFiles, preDirs>>

\* readFile or writeFile of the registry update throws; applyRegistryUpdates
\* rethrows and applies no further update
ApplyRegistryUpdateFails ==
  /\ pc = "patch"
  /\ nextUpdate <= Len(template.registryUpdates)
  /\ LET registryPath == registryPathOf(projectContext, template.registryUpdates[nextUpdate])
     IN /\ registryPath \in DOMAIN files
        /\ \E text \in afterFailedWrite(files[registryPath]) :
             files' = writeFile(files, registryPath, text)
        /\ dirs' = dirs
  /\ failedStep' = "patch"
  /\ pc' = "catch"
  /\ UNCHANGED <<patchVars, sideVars, run, exitCode, config, projectContext, template, backupPaths,
                 nextUpdate, restore, result, preFiles, preDirs>>

\* the end of the try block of addComponent
Succeed ==
  /\ pc = "patch"
  /\ nextUpdate > Len(template.registryUpdates)
  /\ result' = "success"
  /\ pc' = "returned"
  /\ UNCHANGED <<patchVars, sideVars, fsVars, run, exitCode, config, projectContext, template,
                 backupPaths, nextUpdate, failedStep, restore, preFiles, preDirs>>

\* a rollback that also removes the component file written by the run
RestoreRemovingComponent ==
  /\ pc = "catch"
  /\ Len(backupPaths) > 0
  /\ LET restored == restoreFiles(files, projectContext, backupPaths, Len(backupPaths))
         written == componentPathOf(projectContext, config.componentType, config.componentName)
     IN files' = [p \in DOMAIN restored \ {written} |-> restored[p]]
  /\ restore' = "done"
  /\ pc' = "rethrow"
  /\ UNCHANGED <<patchVars, sideVars, dirs, run, exitCode, config, projectContext, template,
                 backupPaths, nextUpdate, failedStep, result, preFiles, preDirs>>

\* the catch block of addComponent with backups to restore:
\* restoreRegistryFiles returns
Restore ==
  /\ pc = "catch"
  /\ Len(backupPaths) > 0
  /\ files' = restoreFiles(files, projectContext, backupPaths, Len(backupPaths))
  /\ restore' = "done"
  /\ pc' = "rethrow"
  /\ UNCHANGED <<patchVars, sideVars, dirs, run, exitCode, config, projectContext, template,
                 backupPaths, nextUpdate, failedStep, result, preFiles, preDirs>>

\* restoreRegistryFiles throws in the copy after n copies; the error is
\* caught and logged
RestoreFails ==
  /\ pc = "catch"
  /\ Len(backupPaths) > 0
  /\ \E n \in 0..(Len(backupPaths) - 1) :
       LET done == restoreFiles(files, projectContext, backupPaths, n)
           target == originalPathOf(projectContext, backupPaths[n + 1])
       IN \E text \in afterFailedWrite(done[target]) :
            files' = writeFile(done, target, text)
  /\ restore' = "failed"
  /\ pc' = "rethrow"
  /\ UNCHANGED <<patchVars, sideVars, dirs, run, exitCode, config, projectContext, template,
                 backupPaths, nextUpdate, failedStep, result, preFiles, preDirs>>

\* a catch block that rethrows without restoring
CatchSkipsRestore ==
  /\ pc = "catch"
  /\ pc' = "rethrow"
  /\ UNCHANGED <<patchVars, sideVars, fsVars, run, exitCode, config, projectContext, template,
                 backupPaths, nextUpdate, failedStep, restore, result, preFiles, preDirs>>

\* the catch block of addComponent with backupPaths empty: no restore
CatchWithoutBackup ==
  /\ pc = "catch"
  /\ Len(backupPaths) = 0
  /\ pc' = "rethrow"
  /\ UNCHANGED <<patchVars, sideVars, fsVars, run, exitCode, config, projectContext, template,
                 backupPaths, nextUpdate, failedStep, restore, result, preFiles, preDirs>>

\* addComponent throws: the catch block of the add command, process.exit(1)
CliError ==
  /\ pc = "rethrow"
  /\ exitCode' = 1
  /\ pc' = "exited"
  /\ UNCHANGED <<patchVars, sideVars, fsVars, run, config, projectContext, template,
                 backupPaths, nextUpdate, failedStep, restore, result, preFiles, preDirs>>

\* addComponent returns: the command prints its success line and ends
CliReturned ==
  /\ pc = "returned"
  /\ exitCode' = 0
  /\ pc' = "exited"
  /\ UNCHANGED <<patchVars, sideVars, fsVars, run, config, projectContext, template,
                 backupPaths, nextUpdate, failedStep, restore, result, preFiles, preDirs>>

Next ==
  \/ CliInvalidType \/ CliInvalidName \/ CliCancelled \/ CliConfirmed
  \/ Detect \/ CheckExists \/ Generate
  \/ Backup \/ BackupFails
  \/ WriteComponentFile \/ WriteComponentFileFails
  \/ UpdateIndex \/ UpdateIndexFails
  \/ ApplyRegistryUpdate \/ ApplyRegistryUpdateFails
  \/ Succeed
  \/ Restore \/ RestoreFails \/ CatchWithoutBackup
  \/ CliError \/ CliReturned

Spec == Init /\ [][Next]_vars

\* the method body the patcher sees in a text ("" when it sees no method)
BodyOf(kind, content) == initMethodMatch(kind, content).body

\* C1: patching a file twice with the same update gives the content the
\* first patch gave (no second import line, no second registration line).
C1_PatchIdempotent == patches >= 2 => regContent = regPrev

\* C5: when the body already has calls to the kind's setter, the new
\* registration line goes in after the last of them, so that every call
\* that was there comes before the new line.
C5_InsertedAfterLastCall ==
  LET body0 == BodyOf(regKind, insertImport(regOriginal, regUpdate.addImport))
      line == "\n    " \o regUpdate.addRegistration
      at == indexOf(regContent, line, 0)
  IN (/\ patches = 1
      /\ initMethodMatch(regKind, regOriginal).found
      /\ lastIndexOf(body0, Setter(regKind)) # -1
      /\ ~includes(body0, regUpdate.addRegistration))
     => /\ at # -1
        /\ countOf(slice(regContent, 0, at), Setter(regKind))
             = countOf(regOriginal, Setter(regKind))

ScenarioTextAsWritten == "initializeTools(){ this.tools.set('a', fn); }"

ScenarioTextGenerated == "private initializeTools(): void { this.tools.set('a', fn); }"

\* both entries are in the text, the a entry first
HasAThenB(text) ==
  /\ includes(text, "this.tools.set('a', fn);")
  /\ includes(text, "this.tools.set('b', fn2);")
  /\ indexOf(text, "this.tools.set('a', fn);", 0) < indexOf(text, "this.tools.set('b', fn2);", 0)

contextOf(fl, ds) == detectMcpProject(fl, ds, ProjectPath)

\* every registry file that existed before the run has its pre-run content
RegistryFilesAsBefore ==
  LET regs == registryFiles(contextOf(preFiles, preDirs))
  IN \A i \in 1..Len(regs) :
       regs[i] \in DOMAIN preFiles
         => regs[i] \in DOMAIN files /\ files[regs[i]] = preFiles[regs[i]]

\* every file that existed before the run is there with its pre-run content
ProjectFilesAsBefore ==
  \A p \in DOMAIN preFiles : p \in DOMAIN files /\ files[p] = preFiles[p]

\* addComponent has thrown: its catch block is over
Rethrown == pc \in {"rethrow", "exited"} /\ failedStep # "none"

C3_RestoreFromBackupOnward ==
  /\ (Rethrown /\ failedStep \in {"backup", "write", "updateIndex", "patch"})
       => restore # "none"
  /\ (pc \in {"rethrow", "returned", "exited"} /\ failedStep \in {"none", "detect"}
        /\ result # "success")
       => restore = "none" /\ files = preFiles /\ dirs = preDirs

\* C3 amended: a failure of a step after Backup has returned (the component
\* write, the index update, the registry update) has the restore executed
\* before the error is re-raised; a failure of Backup itself has no restore
\* and leaves every file of the project as it was (a backup directory may
\* stay behind); a stop before Backup has no restore and no file modified.
C3_RestoreAfterBackupReturned ==
  /\ (Rethrown /\ failedStep \in {"write", "updateIndex", "patch"})
       => restore # "none"
  /\ (Rethrown /\ failedStep = "backup")
       => restore = "none" /\ ProjectFilesAsBefore
  /\ (pc \in {"rethrow", "returned", "exited"} /\ failedStep \in {"none", "detect"}
        /\ result # "success")
       => restore = "none" /\ files = preFiles /\ dirs = preDirs

\* the index update failed after the component file was written, and the
\* restore ran before the rethrow
C3_Witness ==
  /\ pc = "rethrow"
  /\ failedStep = "updateIndex"
  /\ restore = "done"

\* the files after backupRegistryFiles and then restoreRegistryFiles, run
\* from the file system fl, ds
BackupThenRestore(fl, ds) ==
  LET ctx == contextOf(fl, ds)
      ex == existingRegistryFiles(fl, ds, ctx)
      saved == backupFiles(fl, ds, ctx, run, Len(ex))
      paths == backupPathsOf(fl, ds, ctx, run)
  IN [ex |-> ex, saved |-> saved, paths |-> paths,
      restored |-> restoreFiles(saved, ctx, paths, Len(paths)),
      originals |-> [i \in 1..Len(paths) |-> originalPathOf(ctx, paths[i])]]

\* C4: a restore run on the result of a backup right after it leaves every
\* tracked registry file with its content, and writes every backup copy to
\* the path it was copied from; in a run, a restore that follows a backup
\* with no registry write in between leaves the registry files as before.
C4_BackupRestoreRoundTrip ==
  /\ LET r == BackupThenRestore(files, dirs)
     IN /\ Len(r.paths) = Len(r.ex)
        /\ \A i \in 1..Len(r.ex) :
             /\ r.originals[i] = r.ex[i]
             /\ r.saved[r.paths[i]] = files[r.ex[i]]
             /\ r.restored[r.ex[i]] = files[r.ex[i]]
        /\ r.restored = r.saved
  /\ (failedStep = "write" /\ restore = "done") => RegistryFilesAsBefore

\* the component write failed right after the backup of three registry
\* files, and the restore ran
C4_Witness ==
  /\ failedStep = "write"
  /\ restore = "done"
  /\ Len(backupPaths) = 3
  /\ \A i \in 1..3 : backupPaths[i] \in DOMAIN files

\* the add command was given an invalid name without --skip-validation
InvalidNameNoSkip ==
  /\ config.componentType \in ComponentTypes
  /\ ~validateComponentName(config.componentName, config.componentType)
  /\ ~config.skipValidation

\* C7: the add command ends with exit code 1 on an unknown kind, on an
\* invalid name without --skip-validation, on a component that exists, on
\* a directory that is not an MCP project, and on a failed registry update.
C7_ExitOne ==
  (/\ pc = "exited"
   /\ \/ config.componentType \notin ComponentTypes
      \/ InvalidNameNoSkip
      \/ result = "exists"
      \/ result = "notProject"
      \/ failedStep = "patch")
    => exitCode = 1

\* the component file of the command was there before the run
ExistedBefore ==
  /\ config.componentType \in ComponentTypes
  /\ componentPathOf(contextOf(preFiles, preDirs), config.componentType, config.componentName)
       \in DOMAIN preFiles

\* C8 as written: with an invalid name, or with a component of the same
\* kind and name already there, the run modifies no file and no directory.
C8_NoMutation ==
  (/\ config # NoConfig
   /\ \/ (/\ config.componentType \in ComponentTypes
          /\ ~validateComponentName(config.componentName, config.componentType))
      \/ ExistedBefore)
    => files = preFiles /\ dirs = preDirs

\* C8 amended: with an invalid name and no --skip-validation, or with a
\* component of the same kind and name already there, the run modifies no
\* file and no directory.
C8_NoMutationUnlessSkipped ==
  (config # NoConfig /\ (InvalidNameNoSkip \/ ExistedBefore))
    => files = preFiles /\ dirs = preDirs

\* the run found the component in a valid project and ended
C8_Witness ==
  /\ pc = "exited"
  /\ result = "exists"
  /\ projectContext.isValidProject
  /\ ExistedBefore

\* the detection has run
Detected == projectContext # NoContext

\* the manifest text declares the SDK under dependencies or devDependencies
DeclaresSdk(text) ==
  \/ includes(text, "\"dependencies\":{\"" \o SdkPackage \o "\"")
  \/ includes(text, "\"devDependencies\":{\"" \o SdkPackage \o "\"")

\* the five required files are in the source root
AllRequiredFiles ==
  \A i \in 1..Len(requiredFiles) :
    (ProjectPath \o <<"src">> \o requiredFiles[i]) \in DOMAIN preFiles

\* C9: detection reports a valid project exactly when the manifest exists,
\* the SDK is in its dependencies or devDependencies, the source root
\* exists and the five required files exist; a manifest without the
\* dependency gives false even with every required file there.
C9_ValidExactlyWhen ==
  Detected =>
    LET manifest == ProjectPath \o <<"package.json">>
    IN /\ projectContext.isValidProject
            <=> /\ manifest \in DOMAIN preFiles
                /\ DeclaresSdk(preFiles[manifest])
                /\ (ProjectPath \o <<"src">>) \in preDirs
                /\ AllRequiredFiles
       /\ (/\ manifest \in DOMAIN preFiles
           /\ ~DeclaresSdk(preFiles[manifest]))
            => ~projectContext.isValidProject

\* a project with the source root and the five files whose manifest has
\* another dependency only: detected as not valid
C9_Witness ==
  /\ Detected
  /\ AllRequiredFiles
  /\ (ProjectPath \o <<"package.json">>) \in DOMAIN preFiles
  /\ preFiles[ProjectPath \o <<"package.json">>] = ManifestOtherDependency
  /\ ~projectContext.isValidProject
  /\ result = "notProject"

\* C10: detection raises no error to its caller; an error inside it is
\* caught and gives a project that is not valid; it writes nothing.
C10_DetectNeverRaises ==
  /\ Detected
       => /\ ~projectContext.raised
          /\ projectContext.caught => ~projectContext.isValidProject
  /\ failedStep # "detect"
  /\ (pc = "checkExists" \/ result = "notProject")
       => files = preFiles /\ dirs = preDirs

\* a detection that caught an error in a tree with every required file
C10_Witness ==
  /\ Detected
  /\ projectContext.caught
  /\ AllRequiredFiles
  /\ result = "notProject"
  /\ files = preFiles

\* ------------------------------------------------------------------------
\* Name validation on its own
\* ------------------------------------------------------------------------

\* a name of 50 characters and one of 51
LongestName == "abcdefghijklmnopqrstuvwxyzabcdefghijklmnopqrstuvwx"

TooLongName == LongestName \o "y"

\* names given to validateComponentName
NameInputs ==
  { "", "   ", "foo", " foo ", "My Thing", "my  thing", "a_b-1", "9lives", "-foo",
    "foo!", "index", "Index", "export", "tool", "Tool",
    "my-tool", "myTool", "foo tool", "foo-resource", "fooResource",
    "foo-prompt", "fooPrompt", "foo-service", "fooService",
    "foo-transport", "fooTransport", "foo-util",
    LongestName, TooLongName }

\* a name and a kind to validate
NamingInit ==
  /\ PatchIdle
  /\ AddIdle
  /\ IndexIdle
  /\ listIndex = 0
  /\ partial = "none"
  /\ ExtraIdle
  /\ checkedName \in NameInputs
  /\ checkedType \in ComponentTypes
  /\ validation = "pending"
  /\ derived = NoNames

\* validateComponentName(name, type)
Validate ==
  /\ validation = "pending"
  /\ validation' = IF validateComponentName(checkedName, checkedType)
                   THEN "valid" ELSE "invalid"
  /\ UNCHANGED <<patchVars, fsVars, addVars, checkedName, checkedType, derived,
                 indexVars, listIndex, partial, extraVars>>

\* the derivation functions applied to the name and the kind
Derive ==
  /\ validation # "off"
  /\ ~derived.done
  /\ derived' = [done |-> TRUE,
                 fileName |-> generateComponentFileName(checkedName, checkedType),
                 className |-> generateClassName(checkedName, checkedType),
                 variableName |-> generateVariableName(checkedName, checkedType),
                 registryKey |-> generateRegistryKey(checkedName)]
  /\ UNCHANGED <<patchVars, fsVars, addVars, checkedName, checkedType, validation,
                 indexVars, listIndex, partial, extraVars>>

NamingNext == Validate \/ Derive

SpecNaming == NamingInit /\ [][NamingNext]_vars

\* the name with its white space trimmed and its runs of white space
\* turned into hyphens
Hyphenated(name) == replaceWs(trim(name), 0)

\* the name ends in the suffix word of the kind, hyphenated or case-joined
EndsInSuffixOf(name, type) ==
  /\ classSuffix(type) # ""
  /\ \/ endsWith(Hyphenated(name), "-" \o toLowerCase(classSuffix(type)))
     \/ endsWith(Hyphenated(name), classSuffix(type))

\* the five conditions of a valid name
ValidByRule(name, type) ==
  /\ trim(name) # ""
  /\ isIdentifierLike(Hyphenated(name))
  /\ Len(Hyphenated(name)) <= 50
  /\ toLowerCase(Hyphenated(name)) \notin
       {"index", "server", "config", "main", "default", "export", "import"}
  /\ ~EndsInSuffixOf(name, type)

\* C11: a name is valid exactly when it is non-empty after trimming, its
\* hyphenated form matches ^[A-Za-z][A-Za-z0-9_-]*$ and has at most 50
\* characters, it is not a reserved word in any case, and it does not end
\* in the suffix of the kind; "my-tool" is invalid for a tool and
\* "My Thing" is valid for a tool with the normalized name "my-thing".
C11_ValidExactlyByRule ==
  validation \in {"valid", "invalid"}
    => /\ (validation = "valid") <=> ValidByRule(checkedName, checkedType)
       /\ (checkedName = "my-tool" /\ checkedType = "tool") => validation = "invalid"
       /\ (checkedName = "My Thing" /\ checkedType = "tool")
            => validation = "valid" /\ generateRegistryKey(checkedName) = "my-thing"

\* C18: for every kind whose suffix word the naming functions append
\* (tool, resource, prompt, service, transport), a name that ends in the
\* suffix, hyphenated or case-joined, is rejected.
C18_SuffixRejected ==
  (/\ validation \in {"valid", "invalid"}
   /\ checkedType \in {"tool", "resource", "prompt", "service", "transport"}
   /\ EndsInSuffixOf(checkedName, checkedType))
    => validation = "invalid"

\* ------------------------------------------------------------------------
\* The list command (listExistingComponents)
\* ------------------------------------------------------------------------

\* the dir fields of componentTypes, in the order of the loop
listDirs == <<"tools", "resources", "prompts", "services", "transports", "utils">>

\* what is at src/services: nothing, a directory with a component file,
\* or a file of that name
ServicesStates == {"absent", "directory", "file"}

servicesPath == ProjectPath \o <<"src", "services">>

\* the list command is started in a project directory
ListInit ==
  /\ PatchIdle
  /\ NameIdle
  /\ IndexIdle
  /\ partial = "none"
  /\ ExtraIdle
  /\ \E manifest \in ManifestStates, missing \in MissingStates, hasFoo \in BOOLEAN,
        services \in ServicesStates :
       /\ files = LayoutFiles(manifest, missing, hasFoo)
                    @@ (IF missing = "src" \/ services = "absent" THEN << >>
                        ELSE IF services = "file" THEN servicesPath :> "// services\n"
                        ELSE (servicesPath \o <<"mail.ts">>) :> "// mail.ts\n")
       /\ dirs = LayoutDirs(manifest, missing, hasFoo)
                   \cup (IF missing # "src" /\ services = "directory"
                         THEN {servicesPath} ELSE {})
  /\ run = 1
  /\ pc = "list"
  /\ exitCode = -1
  /\ config = NoConfig
  /\ projectContext = NoContext
  /\ template = NoTemplate
  /\ backupPaths = << >>
  /\ nextUpdate = 1
  /\ failedStep = "none"
  /\ restore = "none"
  /\ result = "none"
  /\ preFiles = files
  /\ preDirs = dirs
  /\ listIndex = 0

\* detectMcpProject and the isValidProject test of listExistingComponents
ListDetect ==
  /\ pc = "list"
  /\ projectContext' = detectMcpProject(files, dirs, ProjectPath)
  /\ IF projectContext'.raised
     THEN pc' = "rethrow" /\ result' = result /\ listIndex' = listIndex
     ELSE IF ~projectContext'.isValidProject
     THEN pc' = "returned" /\ result' = "notProject" /\ listIndex' = listIndex
     ELSE pc' = "enumerate" /\ result' = result /\ listIndex' = 1
  /\ UNCHANGED <<patchVars, fsVars, run, exitCode, config, template, backupPaths,
                 nextUpdate, failedStep, restore, preFiles, preDirs,
                 nameVars, indexVars, partial, extraVars>>

\* componentDir of the iteration of the loop
listDirOf(projectContext_, i) == projectContext_.srcPath \o <<listDirs[i]>>

\* one iteration of the loop: pathExists, then readdir, which throws when
\* the path is not a directory
ListEnumerate ==
  /\ pc = "enumerate"
  /\ listIndex <= Len(listDirs)
  /\ LET componentDir == listDirOf(projectContext, listIndex)
     IN IF pathExists(files, dirs, componentDir) /\ componentDir \notin dirs
        THEN pc' = "rethrow" /\ listIndex' = listIndex
        ELSE pc' = pc /\ listIndex' = listIndex + 1
  /\ UNCHANGED <<patchVars, fsVars, run, exitCode, config, projectContext, template,
                 backupPaths, nextUpdate, failedStep, restore, result, preFiles, preDirs,
                 nameVars, indexVars, partial, extraVars>>

\* readdir of an existing directory throws (the directory cannot be read)
ListReaddirFails ==
  /\ pc = "enumerate"
  /\ listIndex <= Len(listDirs)
  /\ listDirOf(projectContext, listIndex) \in dirs
  /\ pc' = "rethrow"
  /\ UNCHANGED <<patchVars, fsVars, run, exitCode, config, projectContext, template,
                 backupPaths, nextUpdate, failedStep, restore, result, preFiles, preDirs,
                 sideVars>>

\* the loop is over: listExistingComponents returns
ListDone ==
  /\ pc = "enumerate"
  /\ listIndex > Len(listDirs)
  /\ result' = "listed"
  /\ pc' = "returned"
  /\ UNCHANGED <<patchVars, fsVars, run, exitCode, config, projectContext, template,
                 backupPaths, nextUpdate, failedStep, restore, preFiles, preDirs,
                 sideVars>>

\* listExistingComponents returned: the command ends
ListReturned ==
  /\ pc = "returned"
  /\ exitCode' = 0
  /\ pc' = "exited"
  /\ UNCHANGED <<patchVars, fsVars, run, config, projectContext, template, backupPaths,
                 nextUpdate, failedStep, restore, result, preFiles, preDirs, sideVars>>

\* listExistingComponents threw: the catch block of the list command,
\* process.exit(1)
ListError ==
  /\ pc = "rethrow"
  /\ exitCode' = 1
  /\ pc' = "exited"
  /\ UNCHANGED <<patchVars, fsVars, run, config, projectContext, template, backupPaths,
                 nextUpdate, failedStep, restore, result, preFiles, preDirs, sideVars>>

ListNext ==
  \/ ListDetect \/ ListEnumerate \/ ListReaddirFails \/ ListDone
  \/ ListReturned \/ ListError

SpecList == ListInit /\ [][ListNext]_vars

\* C12: the list command ends with exit code 0 whatever the project
\* state: 0 after the not-a-valid-project message, and 0 whatever the
\* enumeration of the kind directories runs into.
C12_ListExitsZero ==
  pc = "exited" => exitCode = 0

\* ------------------------------------------------------------------------
\* applyRegistryUpdates on its own
\* ------------------------------------------------------------------------

\* a registry file in the auto-discovery style: imports, no initialize
\* method
AutoDiscoveryRegistry(kind) ==
  "import { a } from './a.js';\n\nexport const " \o Collection(kind) \o " = discover();\n"

\* what is at the index.ts of a kind
RegistryStates == {"generated", "autodiscovery", "absent"}

RegistryStateText(kind, state) ==
  IF state = "generated" THEN GeneratedRegistry(kind) ELSE AutoDiscoveryRegistry(kind)

\* the project context of a valid project at ProjectPath
ValidContext ==
  [raised |-> FALSE, caught |-> FALSE, isValidProject |-> TRUE,
   projectPath |-> ProjectPath, srcPath |-> ProjectPath \o <<"src">>,
   projectName |-> "proj"]

\* applyRegistryUpdates is called with the updates of a template, on a
\* source tree whose registry files are in any of their states
ApplyInit ==
  /\ PatchIdle
  /\ SideIdle
  /\ \E st \in [RegistryKinds -> RegistryStates] :
       LET present == {k \in RegistryKinds : st[k] # "absent"}
           pathOf(k) == ValidContext.srcPath \o <<getComponentDirectory(k), "index.ts">>
       IN /\ files = [q \in {pathOf(k) : k \in present} |->
                        LET k == CHOOSE k \in present : pathOf(k) = q
                        IN RegistryStateText(k, st[k])]
          /\ dirs = withParents(ValidContext.srcPath)
                      \cup UNION {withParents(dirname(pathOf(k))) : k \in present}
  /\ \E type \in componentsWithIndex : template \in templatesFor(type, "foo")
  /\ config = [componentType |-> template.componentType, componentName |-> "foo",
               skipValidation |-> FALSE]
  /\ projectContext = ValidContext
  /\ run = 1
  /\ pc = "patch"
  /\ exitCode = -1
  /\ backupPaths = << >>
  /\ nextUpdate = 1
  /\ failedStep = "none"
  /\ restore = "none"
  /\ result = "none"
  /\ preFiles = files
  /\ preDirs = dirs

ApplyNext == ApplyRegistryUpdate \/ ApplyRegistryUpdateFails \/ Succeed

SpecApply == ApplyInit /\ [][ApplyNext]_vars

\* the registry file of the update that is next does not exist
MissingAtPatch ==
  /\ pc = "patch"
  /\ nextUpdate <= Len(template.registryUpdates)
  /\ ~pathExists(files, dirs,
                 registryPathOf(projectContext, template.registryUpdates[nextUpdate]))

\* C13: when the registry file of an update does not exist, the update
\* throws registry-not-found, no file or directory is created or written,
\* no further update is applied, and the error reaches the caller of
\* applyRegistryUpdates.
C13_MissingRegistryFatal ==
  [][MissingAtPatch
       => /\ pc' = "catch"
          /\ failedStep' = "patch"
          /\ files' = files
          /\ dirs' = dirs
          /\ nextUpdate' = nextUpdate]_vars

\* the second update of a template found its registry missing after the
\* first one was applied
C13_Witness ==
  /\ pc = "catch"
  /\ failedStep = "patch"
  /\ nextUpdate = 2
  /\ registryPathOf(projectContext, template.registryUpdates[2]) \notin DOMAIN files
  /\ files # preFiles

\* C14: an update whose registry file has no method with the
\* initialize<Kinds>() signature does not throw and leaves that registry
\* file as it was, and the run goes on to its successful end.
C14_StructuralMissSoft ==
  \A i \in 1..Len(template.registryUpdates) :
    LET update == template.registryUpdates[i]
        registryPath == registryPathOf(projectContext, update)
    IN (/\ pc \in {"patch", "returned"}
        /\ i < nextUpdate
        /\ ~initMethodMatch(update.registryType, preFiles[registryPath]).found)
         => files[registryPath] = preFiles[registryPath]

\* ------------------------------------------------------------------------
\* The order of the steps of the add workflow
\* ------------------------------------------------------------------------

\* the steps of a run, in the order of the code; the outcomes rank last
StepRank(step) ==
  CASE step = "cli" -> 1
    [] step = "detect" -> 2
    [] step = "checkExists" -> 3
    [] step = "generate" -> 4
    [] step = "backup" -> 5
    [] step = "write" -> 6
    [] step = "updateIndex" -> 7
    [] step = "patch" -> 8
    [] OTHER -> 9

\* the name check of the add command has passed or was skipped
NameChecked ==
  /\ config.componentType \in ComponentTypes
  /\ config.skipValidation
       \/ validateComponentName(config.componentName, config.componentType)

\* the snapshot is complete: a copy of every registry file, with its
\* pre-run content
BackupComplete ==
  /\ Len(backupPaths) = Len(registryFiles(projectContext))
  /\ \A i \in 1..Len(backupPaths) :
       /\ backupPaths[i] \in DOMAIN files
       /\ files[backupPaths[i]] = preFiles[registryFiles(projectContext)[i]]

\* the component file is there with the generated content
ComponentWritten ==
  LET filePath == componentPathOf(projectContext, config.componentType, config.componentName)
  IN filePath \in DOMAIN files /\ files[filePath] = template.templateContent

\* the index of the kind exports the component (kinds with an index)
IndexUpdated ==
  config.componentType \in componentsWithIndex
    => includes(files[indexPathOf(projectContext, config.componentType)],
                exportNameOf(template.indexUpdateContent))

\* what holds while a step is about to run: the steps before it are done
StepsBeforeAreDone ==
  /\ StepRank(pc) \in 2..8 => NameChecked
  /\ StepRank(pc) \in 3..8 => projectContext.isValidProject
  /\ StepRank(pc) \in 4..8 => ~ExistedBefore
  /\ StepRank(pc) \in 5..8 => template \in templatesFor(config.componentType,
                                                        config.componentName)
  /\ StepRank(pc) \in 6..8 => BackupComplete
  /\ StepRank(pc) \in 7..8 => ComponentWritten
  /\ StepRank(pc) = 8 => IndexUpdated
  /\ StepRank(pc) \in 1..5 => files = preFiles /\ dirs = preDirs
  /\ Len(backupPaths) = 0 => ProjectFilesAsBefore /\ nextUpdate = 1

\* a step is followed by the next step, by itself (the loop over the
\* updates) or by an outcome
NextStepInOrder ==
  /\ StepRank(pc') >= StepRank(pc)
  /\ StepRank(pc') <= 8 => StepRank(pc') <= StepRank(pc) + 1
  /\ (StepRank(pc') = StepRank(pc) /\ StepRank(pc) <= 8) => pc = "patch"

RECURSIVE splitLines(_, _)
\* the lines of a text from offset from on
splitLines(s, from) ==
  LET e == indexOf(s, "\n", from)
  IN IF e = -1 THEN <<sliceFrom(s, from)>>
     ELSE <<slice(s, from, e)>> \o splitLines(s, e + 1)

Lines(s) == splitLines(s, 0)

\* a line that is an import statement: import ... from '...';
IsImportLine(line) ==
  /\ startsWithAt(line, "import", 0)
  /\ includes(line, " from ")
  /\ endsWith(line, "';") \/ endsWith(line, "\";")

\* the numbers of the import lines of a text
ImportLineNumbers(s) == {k \in 1..Len(Lines(s)) : IsImportLine(Lines(s)[k])}

FirstDeclaration(s) ==
  LET P == {p \in 0..(Len(s) - 1) :
              \/ startsWithAt(s, "class", p)
              \/ startsWithAt(s, "export", p)
              \/ startsWithAt(s, "interface", p)}
  IN IF P = {} THEN -1 ELSE Min(P)

\* C17: for every registry kind, when the file has no import statement
\* the import line of the update goes in before the first class, export
\* or interface keyword; with no such keyword the import is skipped and
\* the patch still completes.
C17_ImportFallback ==
  (/\ patches = 1
   /\ ~includes(regOriginal, regUpdate.addImport)
   /\ ImportLineNumbers(regOriginal) = {})
    => IF FirstDeclaration(regOriginal) # -1
       THEN /\ includes(regContent, regUpdate.addImport)
            /\ indexOf(regContent, regUpdate.addImport, 0) < FirstDeclaration(regContent)
       ELSE ~includes(regContent, regUpdate.addImport)

\* ------------------------------------------------------------------------
\* updateComponentIndex on its own
\* ------------------------------------------------------------------------

\* the number of times the same fragment is applied to one index file
MaxIndexRuns == 2

\* contents of an index file
IndexTexts ==
  { "",
    "export { FooTool } from './foo-tool.js';\n",
    "export {FooTool} from './foo-tool.js';",
    "export { MyFooTool } from './my-foo-tool.js';\n",
    "export { BarTool } from './bar-tool.js';\n\n\n",
    "// FooTool comes later\nexport { BarTool } from './bar-tool.js';\n",
    "export { BarTool } from './bar-tool.js';\nexport { FooResource } from './foo-resource.js';\n",
    GeneratedRegistry("tool") }

\* the index fragments of the templates of some components
IndexFragments ==
  { generateComponentTemplate(type, name).indexUpdateContent :
      type \in componentsWithIndex, name \in {"foo", "my foo", "bar"} }

\* an index file and a fragment for it; nothing applied yet
IndexInit ==
  /\ PatchIdle
  /\ AddIdle
  /\ NameIdle
  /\ listIndex = 0
  /\ partial = "none"
  /\ ExtraIdle
  /\ indexOriginal \in IndexTexts
  /\ indexFragment \in IndexFragments
  /\ indexContent = indexOriginal
  /\ indexPrev = indexOriginal
  /\ indexRuns = 0

\* one run of updateComponentIndex on the file (which exists)
UpdateIndexAlone ==
  /\ indexRuns < MaxIndexRuns
  /\ indexContent' = IF indexAlreadyExports(indexContent, indexFragment)
                     THEN indexContent
                     ELSE updatedIndexContent(indexContent, indexFragment)
  /\ indexPrev' = indexContent
  /\ indexRuns' = indexRuns + 1
  /\ UNCHANGED <<patchVars, fsVars, addVars, nameVars, indexOriginal, indexFragment,
                 listIndex, partial, extraVars>>

IndexNext == UpdateIndexAlone

SpecIndex == IndexInit /\ [][IndexNext]_vars

\* the names the export statements of an index text export
ExportedNames(text) ==
  {exportNameOf(Lines(text)[k]) :
     k \in {j \in 1..Len(Lines(text)) : startsWithAt(Lines(text)[j], "export", 0)}} \ {""}

\* C19: the index update appends the fragment exactly when the index does
\* not yet export that exact name, and leaves the file unchanged when it
\* does; a second update with the same fragment changes nothing, and an
\* index that exports other names only is always updated.
C19_AppendsExactlyWhenNotExported ==
  LET name == exportNameOf(indexFragment)
  IN /\ indexRuns = 1
          => IF name \in ExportedNames(indexOriginal)
             THEN indexContent = indexOriginal
             ELSE /\ indexContent = trim(indexOriginal) \o "\n" \o indexFragment \o "\n"
                  /\ name \in ExportedNames(indexContent)
     /\ indexRuns = 2 => indexContent = indexPrev

\* ------------------------------------------------------------------------
\* A patch after a partial patch
\* ------------------------------------------------------------------------

\* an earlier run with the same update left one of the two insertions of
\* the patch in the file
PartialPatch ==
  /\ pc = "off"
  /\ patches = 0
  /\ partial = "none"
  /\ \/ /\ partial' = "import"
        /\ regContent' = insertImport(regContent, regUpdate.addImport)
     \/ /\ partial' = "registration"
        /\ regContent' = insertRegistration(regKind, regContent, regUpdate.addRegistration)
  /\ UNCHANGED <<regKind, regOriginal, regUpdate, regPrev, patches, fsVars, addVars,
                 nameVars, indexVars, listIndex, extraVars>>

PartialNext == PartialPatch \/ Patch

SpecPartial == PatchInit /\ [][PartialNext]_vars

\* C20: from a file in which an earlier patch with the update applied
\* the import insertion only, or the registration insertion only, the
\* whole patch with the same update gives the content that one complete
\* patch of the original file gives.
C20_ConvergesAfterPartialPatch ==
  (partial # "none" /\ patches = 1)
    => regContent = applyOneUpdate(regOriginal, regUpdate)

\* ------------------------------------------------------------------------
\* The frame of the patch (C21, C22, C27)
\* ------------------------------------------------------------------------

\* s without the first occurrence of lit
removeFirst(s, lit) ==
  LET i == indexOf(s, lit, 0)
  IN IF i = -1 THEN s ELSE slice(s, 0, i) \o sliceFrom(s, i + Len(lit))

\* the import line and the registration line as the patcher inserts them
InsertedImport == "\n" \o regUpdate.addImport

InsertedRegistration == "\n    " \o regUpdate.addRegistration

\* the texts obtained from the patched file by taking out the insertions
WithoutInsertions ==
  { regContent,
    removeFirst(regContent, InsertedImport),
    removeFirst(regContent, InsertedRegistration),
    removeFirst(removeFirst(regContent, InsertedRegistration), InsertedImport) }

\* C21: the patched file differs from the original only by the inserted
\* import line and the inserted registration line: taking the insertions
\* out gives back the original text character for character.
C21_OnlyInsertions == patches = 1 => regOriginal \in WithoutInsertions

\* the method is found, has no call to the setter and lacks the registration
EmptyBodyCase ==
  LET body0 == BodyOf(regKind, regOriginal)
  IN /\ initMethodMatch(regKind, regOriginal).found
     /\ lastIndexOf(body0, Setter(regKind)) = -1
     /\ ~includes(body0, regUpdate.addRegistration)

\* C22: when the body has no call to the kind's setter, the new
\* registration line is appended after the existing body text with its
\* trailing white space removed, so a placeholder comment stays and comes
\* before the new line.
C22_AppendedAfterTrimmedBody ==
  LET c0 == insertImport(regOriginal, regUpdate.addImport)
      m0 == initMethodMatch(regKind, c0)
  IN (patches = 1 /\ EmptyBodyCase)
     => /\ regContent = slice(c0, 0, m0.index) \o InitSignature(regKind)
                          \o trimEnd(m0.body) \o InsertedRegistration
                          \o "\n    }" \o sliceFrom(c0, m0.end)
        /\ includes(m0.body, "// nothing registered yet")
             => includes(regContent, "// nothing registered yet" \o InsertedRegistration)

C22_Witness ==
  /\ patches = 1
  /\ EmptyBodyCase
  /\ BodyOf(regKind, regOriginal) = "\n    // nothing registered yet\n  "
  /\ includes(regContent, "// nothing registered yet" \o InsertedRegistration)

\* C27: for a body with at least one call to the setter, the registration
\* is inserted after the end of the last existing call and at a statement
\* boundary (right after a `;`), never before an existing call and never
\* inside one, also when no `;` follows the last call in the matched body.
C27_AfterLastCallAtBoundary ==
  LET body0 == BodyOf(regKind, regOriginal)
      at == indexOf(regContent, InsertedRegistration, 0)
  IN (/\ patches = 1
      /\ initMethodMatch(regKind, regOriginal).found
      /\ lastIndexOf(body0, Setter(regKind)) # -1
      /\ ~includes(body0, regUpdate.addRegistration))
     => /\ at > 0
        /\ charAt(regContent, at - 1) = ";"
        /\ \A i \in 0..(Len(regContent) - 1) :
             startsWithAt(regContent, Setter(regKind), i)
               /\ ~startsWithAt(regContent, regUpdate.addRegistration, i)
               => i < at

\* ------------------------------------------------------------------------
\* The abort of the registry updates and the reach of the restore (C23, C24)
\* ------------------------------------------------------------------------

\* the run ended in the add command's catch block after a registry update threw
PatchAborted == pc = "exited" /\ failedStep = "patch"

\* once a registry update has thrown, no update is applied any more: the
\* update counter stands still and only the catch block writes files
NoLaterUpdate ==
  failedStep = "patch"
    => /\ failedStep' = "patch"
       /\ nextUpdate' = nextUpdate
       /\ files' # files => pc = "catch"

\* C23 as written: a registry update that throws aborts the rest of the
\* workflow: no later update is applied, every registry file has its
\* pre-run content again, and the command exits with status 1.
C23_AbortRestoresAndExitsOne ==
  /\ [](PatchAborted => exitCode = 1 /\ RegistryFilesAsBefore)
  /\ [][NoLaterUpdate]_vars

\* C23 amended: a registry update that throws aborts the rest of the
\* workflow: no later update is applied, the restore is attempted, the
\* command exits with status 1, and if the restore completes every registry
\* file has its pre-run content again.
C23_AbortExitsOneRestoresWhenRestoreCompletes ==
  /\ [](PatchAborted => /\ exitCode = 1
                        /\ restore \in {"done", "failed"}
                        /\ restore = "done" => RegistryFilesAsBefore)
  /\ [][NoLaterUpdate]_vars

\* the first of two registry updates threw after the index file had been
\* changed; the second was never applied and the restore completed
C23_Witness ==
  /\ PatchAborted
  /\ nextUpdate = 1
  /\ Len(template.registryUpdates) = 2
  /\ restore = "done"
  /\ exitCode = 1
  /\ RegistryFilesAsBefore

\* the path of the component file of the run
componentPath == componentPathOf(projectContext, config.componentType, config.componentName)

\* the registry files recorded in the snapshot
snapshotTargets == {originalPathOf(projectContext, backupPaths[i]) : i \in 1..Len(backupPaths)}

\* the catch block writes to files recorded in the snapshot only, and
\* removes no file
RestoreWritesSnapshotTargetsOnly ==
  pc = "catch"
    => /\ DOMAIN files \subseteq DOMAIN files'
       /\ \A p \in DOMAIN files' :
            (p \notin DOMAIN files \/ files'[p] # files[p]) => p \in snapshotTargets

\* C24: on a failure after the component file was written, the rollback
\* writes only to the registry files recorded in the snapshot, and the
\* component file remains on disk with its generated content.
C24_RestoreKeepsComponentFile ==
  /\ []((Rethrown /\ failedStep \in {"updateIndex", "patch"})
          => /\ componentPath \in DOMAIN files
             /\ files[componentPath] = template.templateContent
             /\ componentPath \notin snapshotTargets)
  /\ [][RestoreWritesSnapshotTargetsOnly]_vars

\* a run that wrote a new component file, failed in a registry update and
\* restored the registry files
C24_Witness ==
  /\ Rethrown
  /\ failedStep = "patch"
  /\ restore = "done"
  /\ componentPath \notin DOMAIN preFiles
  /\ componentPath \in DOMAIN files
  /\ files[componentPath] = template.templateContent
  /\ RegistryFilesAsBefore

\* ------------------------------------------------------------------------
\* The naming derivation (C25)
\* ------------------------------------------------------------------------

\* the words of a name: the non-empty pieces between `-`, `_` and white space
WordsOf(name) == SelectSeq(splitWords(name, 0, ""), LAMBDA w : w # "")

\* the fixed suffix word of a kind
SuffixWord(type) == toLowerCase(classSuffix(type))

\* the words of a derived name: those of the name and then the suffix word
WordsWithSuffix(name, type) ==
  WordsOf(name) \o (IF SuffixWord(type) = "" THEN << >> ELSE <<SuffixWord(type)>>)

RECURSIVE KebabCase(_, _)
\* the words from the i-th on in lower case, joined by hyphens
KebabCase(words, i) ==
  IF i > Len(words) THEN ""
  ELSE toLowerCase(words[i])
         \o (IF i < Len(words) THEN "-" ELSE "") \o KebabCase(words, i + 1)

\* C25: for every name and kind the file name, the class name and the
\* variable name are the kebab-case, PascalCase and camelCase forms of one
\* word sequence, the words of the name split on `-`, `_` and white space
\* followed by the kind's suffix word, and no derivation fails.
C25_SameWordSequence ==
  derived.done
    => LET words == WordsWithSuffix(checkedName, checkedType)
       IN /\ derived.fileName = KebabCase(words, 1) \o ".ts"
          /\ derived.className = joinWords(words, 1, FALSE)
          /\ derived.variableName = joinWords(words, 1, TRUE)

\* ------------------------------------------------------------------------
\* The project generator (cli/generator.ts) and its helpers
\* ------------------------------------------------------------------------

\* p is dir or lies under it
isUnder(dir, p) == Len(p) >= Len(dir) /\ SubSeq(p, 1, Len(dir)) = dir

\* the files and the directories left by fs.remove(p)
removeFiles(fl, p) == [q \in {q \in DOMAIN fl : ~isUnder(p, q)} |-> fl[q]]

removeDirs(ds, p) == {d \in ds : ~isUnder(p, d)}

\* the files after fs.copy(srcDir, destDir, {overwrite: true})
copyDirectoryFiles(fl, srcDir, destDir) ==
  LET src == {q \in DOMAIN fl : isUnder(srcDir, q)}
      dest(q) == destDir \o SubSeq(q, Len(srcDir) + 1, Len(q))
  IN [p \in DOMAIN fl \cup {dest(q) : q \in src} |->
        IF \E q \in src : dest(q) = p
        THEN fl[CHOOSE q \in src : dest(q) = p]
        ELSE fl[p]]

\* the directories after fs.copy(srcDir, destDir, {overwrite: true})
copyDirectoryDirs(fl, ds, srcDir, destDir) ==
  ds \cup withParents(destDir)
     \cup {destDir \o SubSeq(d, Len(srcDir) + 1, Len(d)) : d \in {d \in ds : isUnder(srcDir, d)}}
     \cup UNION {withParents(dirname(destDir \o SubSeq(q, Len(srcDir) + 1, Len(q)))) :
                   q \in {q \in DOMAIN fl : isUnder(srcDir, q)}}

\* getTemplatesDirectory()
TemplatesDir == <<"templates">>

\* validateTemplatesDirectory() returns without throwing
validateTemplatesDirectory(fl, ds) ==
  /\ pathExists(fl, ds, TemplatesDir)
  /\ pathExists(fl, ds, TemplatesDir \o <<"base">>)
  /\ pathExists(fl, ds, TemplatesDir \o <<"src">>)

\* A regular expression that is a chain of literals with gaps between them:
\* chain[k].gap is "any" for a lazy [\s\S]*? before the literal and "line"
\* for a greedy .* before it; the gap of the first literal is not used.

RECURSIVE chainEnd(_, _, _, _)
\* the end of the match of chain[k], chain[k+1], ... from pos on, -1 if none
chainEnd(s, pos, chain, k) ==
  IF k > Len(chain) THEN pos
  ELSE LET lit == chain[k].lit
           nl == indexOf(s, "\n", pos)
           lineEndPos == IF nl = -1 THEN Len(s) ELSE nl
           limit == IF chain[k].gap = "line"
                    THEN Min({lineEndPos, Len(s) - Len(lit)})
                    ELSE Len(s) - Len(lit)
           Q == {q \in pos..limit :
                   /\ startsWithAt(s, lit, q)
                   /\ chainEnd(s, q + Len(lit), chain, k + 1) # -1}
       IN IF Q = {} THEN -1
          ELSE chainEnd(s, (IF chain[k].gap = "line" THEN Max(Q) ELSE Min(Q)) + Len(lit),
                        chain, k + 1)

\* the end of the match of the chain that starts at p, -1 if none
chainMatchAt(s, p, chain) ==
  IF startsWithAt(s, chain[1].lit, p)
  THEN chainEnd(s, p + Len(chain[1].lit), chain, 2)
  ELSE -1

RECURSIVE replaceAll(_, _, _, _)
\* s.slice(i).replace(/chain/g, replacement)
replaceAll(s, i, chain, replacement) ==
  LET P == {p \in i..(Len(s) - 1) : chainMatchAt(s, p, chain) # -1}
  IN IF P = {} THEN sliceFrom(s, i)
     ELSE slice(s, i, Min(P)) \o replacement
            \o replaceAll(s, chainMatchAt(s, Min(P), chain), chain, replacement)

\* s.replace(/chain/, replacement), the first match only
replaceFirst(s, chain, replacement) ==
  LET P == {p \in 0..(Len(s) - 1) : chainMatchAt(s, p, chain) # -1}
  IN IF P = {} THEN s
     ELSE slice(s, 0, Min(P)) \o replacement \o sliceFrom(s, chainMatchAt(s, Min(P), chain))

\* a literal of a chain
Lit(text) == [lit |-> text, gap |-> "any"]

\* a literal after a gap that stays on the line (.*)
OnLine(text) == [lit |-> text, gap |-> "line"]

\* /import.*<word>.*\n/g
importOf(word) == <<Lit("import"), OnLine(word), OnLine("\n")>>

TransportModeLine ==
  "const transportMode = process.env.MCP_TRANSPORT || process.argv[2] || 'stdio';"

\* removeHttpTransportCode(content)
removeHttpTransportCode(content) ==
  LET c1 == replaceAll(content, 0, importOf("StreamableHTTPServerTransport"), "")
      c2 == replaceAll(c1, 0, importOf("express"), "")
      c3 == replaceAll(c2, 0, importOf("cors"), "")
      c4 == replaceAll(c3, 0, importOf("randomUUID"), "")
      c5 == replaceAll(c4, 0, <<Lit("/**"), Lit("Start the server with"),
                                OnLine("HTTP transport"), Lit("*/"),
                                Lit("async startHttp("), Lit("\n  }")>>, "")
      c6 == replaceAll(c5, 0, <<Lit("case 'http':"), Lit("break;")>>, "")
      c7 == replaceFirst(c6, <<Lit(TransportModeLine)>>, "const transportMode = 'stdio';")
  IN replaceAll(c7, 0, <<Lit("Available modes: stdio, http")>>, "Available modes: stdio")

\* removeStdioTransportCode(content)
removeStdioTransportCode(content) ==
  LET c1 == replaceAll(content, 0, importOf("StdioServerTransport"), "")
      c2 == replaceAll(c1, 0, <<Lit("/**"), Lit("Start the server with Stdio transport"),
                                Lit("*/"), Lit("async startStdio("), Lit("\n  }")>>, "")
      c3 == replaceAll(c2, 0, <<Lit("case 'stdio':"), Lit("break;")>>, "")
      c4 == replaceFirst(c3, <<Lit(TransportModeLine)>>, "const transportMode = 'http';")
  IN replaceAll(c4, 0, <<Lit("Available modes: stdio, http")>>, "Available modes: http")

\* the text removeUnusedTransportCode writes to src/server.ts
withoutUnusedTransport(transportTypes, serverContent) ==
  CASE transportTypes = "stdio" -> removeHttpTransportCode(serverContent)
    [] transportTypes = "http" -> removeStdioTransportCode(serverContent)
    [] OTHER -> serverContent

\* /private register<What>\(\): void \{[\s\S]*?\n  \}/g and its replacement
withoutRegistrations(content, what, plural) ==
  replaceAll(content, 0, <<Lit("private register" \o what \o "(): void {"), Lit("\n  }")>>,
             "private register" \o what \o "(): void {\n    // Add your custom "
               \o plural \o " here\n  }")

\* the text removeExampleCode writes to src/server.ts
withoutExamples(serverContent) ==
  LET c1 == replaceAll(serverContent, 0, importOf("ExampleService"), "")
      c2 == replaceAll(c1, 0, <<Lit("private exampleService: ExampleService;"),
                                Lit("this.exampleService = new ExampleService();")>>, "")
      c3 == withoutRegistrations(c2, "Tools", "tools")
      c4 == withoutRegistrations(c3, "Resources", "resources")
  IN withoutRegistrations(c4, "Prompts", "prompts")

\* the characters of \w
WordChars == UpperLetters \o LowerLetters \o Digits \o "_"

RECURSIVE processTemplateContent(_, _, _)
\* content.slice(i).replace(/\{\{(\w+)\}\}/g, ...): a known key gives its
\* value, an unknown one stays as it is
processTemplateContent(content, i, variables) ==
  LET p == indexOf(content, "{{", i)
  IN IF p = -1 THEN sliceFrom(content, i)
     ELSE LET N == {j \in (p + 2)..(Len(content) - 1) : indexOf(WordChars, charAt(content, j), 0) = -1}
              q == IF N = {} THEN Len(content) ELSE Min(N)
              key == slice(content, p + 2, q)
          IN IF q > p + 2 /\ startsWithAt(content, "}}", q)
             THEN slice(content, i, p)
                    \o (IF key \in DOMAIN variables THEN variables[key]
                        ELSE slice(content, p, q + 2))
                    \o processTemplateContent(content, q + 2, variables)
             ELSE slice(content, i, p + 1) \o processTemplateContent(content, p + 1, variables)

RECURSIVE splitOnSeparator(_, _, _)
\* projectName.split(/[-_]/) from offset i on, cur being the piece read so far
splitOnSeparator(s, i, cur) ==
  IF i >= Len(s) THEN <<cur>>
  ELSE IF charAt(s, i) \in {"-", "_"}
       THEN <<cur>> \o splitOnSeparator(s, i + 1, "")
       ELSE splitOnSeparator(s, i + 1, cur \o charAt(s, i))

\* the character c of s replaced by d everywhere
replaceChar(s, c, d) == mapChars(s, 0, c, d)


\* createTemplateVariables(config.name, ...) with the additional variables
\* of processTemplateVariables; the variables read from the clock and the
\* runtime (CURRENT_YEAR, CURRENT_DATE, NODE_VERSION) are left out
createTemplateVariables(projectName, generation) ==
  LET pascalCase == joinWords(splitOnSeparator(projectName, 0, ""), 1, FALSE)
  IN [PROJECT_NAME |-> projectName,
      PROJECT_NAME_PASCAL |-> pascalCase,
      PROJECT_NAME_CAMEL |-> toLowerCase(charAt(pascalCase, 0)) \o sliceFrom(pascalCase, 1),
      PROJECT_NAME_KEBAB |-> replaceChar(toLowerCase(projectName), "_", "-"),
      PROJECT_NAME_SNAKE |-> replaceChar(toLowerCase(projectName), "-", "_"),
      PROJECT_DESCRIPTION |-> "",
      PROJECT_AUTHOR |-> "",
      MCP_SDK_VERSION |-> "^1.0.0",
      INCLUDE_EXAMPLES |-> IF generation.includeExamples THEN "true" ELSE "false",
      TRANSPORT_TYPES |-> generation.transportTypes]

\* entry.name.endsWith('.template')
isTemplateFile(p) == Len(p) > 0 /\ endsWith(p[Len(p)], ".template")

\* findTemplateFiles(directory)
findTemplateFiles(fl, directory) == {p \in DOMAIN fl : isUnder(directory, p) /\ isTemplateFile(p)}

\* templatePath.replace(/\.template$/, '')
outputPathOf(templatePath) ==
  LET name == templatePath[Len(templatePath)]
  IN dirname(templatePath) \o <<slice(name, 0, Len(name) - Len(".template"))>>

\* the files after processTemplate(templatePath, variables) for every
\* template file in T
processTemplates(fl, T, variables) ==
  LET outputs == {outputPathOf(t) : t \in T}
  IN [p \in (DOMAIN fl \ T) \cup outputs |->
        IF p \in outputs
        THEN processTemplateContent(fl[CHOOSE t \in T : outputPathOf(t) = p], 0, variables)
        ELSE fl[p]]

\* the files after processAllTemplates(projectPath, variables)
processAllTemplates(fl, projectPath, variables) ==
  processTemplates(fl, findTemplateFiles(fl, projectPath), variables)

\* the project name of the generator runs and path.join(process.cwd(), config.name)
GeneratedName == "my_app-one"

GeneratedProjectPath == <<GeneratedName>>

ServerTemplateText ==
  "import { StdioServerTransport } from 'sdk/stdio.js';\n"
    \o "import express from 'express';\n"
    \o "import { ExampleService } from './services/example.js';\n"
    \o "// {{PROJECT_NAME_PASCAL}} {{UNKNOWN}}. Available modes: stdio, http\n"
    \o "  /**\n   * Start the server with Stdio transport\n   */\n"
    \o "  async startStdio() {\n  }\n"
    \o "  /**\n   * Start the server with HTTP transport\n   */\n"
    \o "  async startHttp() {\n  }\n"
    \o "  private registerTools(): void {\n    this.example();\n  }\n"
    \o "    case 'stdio': a(); break;\n    case 'http': b(); break;\n"

\* the states of the templates directory of the installation
TemplateStates == {"complete", "noSrc", "none"}

TemplateFiles(state) ==
  LET base == (TemplatesDir \o <<"base", "package.json.template">>)
                :> "{ name: {{PROJECT_NAME_KEBAB}}, {{PROJECT_NAME_SNAKE}}, {{PROJECT_NAME_CAMEL}} }"
      src == ((TemplatesDir \o <<"src", "server.ts.template">>) :> ServerTemplateText)
               @@ ((TemplatesDir \o <<"src", "services", "example.ts">>)
                     :> "export class ExampleService {}\n")
  IN CASE state = "complete" -> base @@ src
       [] state = "noSrc" -> base
       [] OTHER -> << >>

TemplateDirs(state) ==
  UNION {withParents(dirname(p)) : p \in DOMAIN TemplateFiles(state)}

\* the states of the target directory before the run
TargetStates == {"absent", "empty", "occupied"}

TargetFiles(state) ==
  IF state = "occupied"
  THEN ((GeneratedProjectPath \o <<"notes.txt">>) :> "keep me\n")
         @@ ((GeneratedProjectPath \o <<"src", "server.ts">>) :> "// my server\n")
  ELSE << >>

TargetDirs(state) ==
  CASE state = "absent" -> {}
    [] state = "empty" -> {GeneratedProjectPath}
    [] OTHER -> {GeneratedProjectPath, GeneratedProjectPath \o <<"src">>}

\* the add command and the registry patch are not running
WorkflowIdle ==
  /\ run = 0
  /\ pc = "off"
  /\ exitCode = -1
  /\ config = NoConfig
  /\ projectContext = NoContext
  /\ template = NoTemplate
  /\ backupPaths = << >>
  /\ nextUpdate = 1
  /\ failedStep = "none"
  /\ restore = "none"
  /\ result = "none"
  /\ preFiles = << >>
  /\ preDirs = {}

\* generateProject(config) is called in a working directory
GenerateInit ==
  /\ PatchIdle
  /\ WorkflowIdle
  /\ NameIdle
  /\ IndexIdle
  /\ listIndex = 0
  /\ partial = "none"
  /\ history = << >>
  /\ conc = [i \in Invocations |-> NoInvocation]
  /\ \E templates \in TemplateStates, target \in TargetStates :
       /\ files = TemplateFiles(templates) @@ TargetFiles(target)
       /\ dirs = TemplateDirs(templates) \cup TargetDirs(target)
  /\ \E transportTypes \in {"both", "stdio", "http"}, includeExamples \in BOOLEAN,
        skipInstall \in BOOLEAN :
       gen = [pc |-> "validate", transportTypes |-> transportTypes,
              includeExamples |-> includeExamples, skipInstall |-> skipInstall,
              error |-> "none", preFiles |-> files, preDirs |-> dirs]

\* the generator moves to step next; the rest of the state stays
GenStep(next, error) ==
  /\ gen' = [gen EXCEPT !.pc = next, !.error = error]
  /\ UNCHANGED <<patchVars, addVars, nameVars, indexVars, listIndex, partial, history, conc>>

serverPath == GeneratedProjectPath \o <<"src", "server.ts">>

\* await validateTemplatesDirectory()
GenValidateTemplates ==
  /\ gen.pc = "validate"
  /\ IF validateTemplatesDirectory(files, dirs)
     THEN GenStep("check", "none")
     ELSE GenStep("catch", "templates")
  /\ UNCHANGED fsVars

\* if (await fs.pathExists(projectPath)) throw new Error(`Directory ... already exists`)
GenCheckExists ==
  /\ gen.pc = "check"
  /\ IF pathExists(files, dirs, GeneratedProjectPath)
     THEN GenStep("catch", "exists")
     ELSE GenStep("create", "none")
  /\ UNCHANGED fsVars

\* await ensureDirectoryExists(projectPath)
GenCreateDirectory ==
  /\ gen.pc = "create"
  /\ dirs' = ensureDir(dirs, GeneratedProjectPath)
  /\ files' = files
  /\ GenStep("copy", "none")

\* ensureDirectoryExists throws
GenCreateDirectoryFails ==
  /\ gen.pc = "create"
  /\ UNCHANGED fsVars
  /\ GenStep("catch", "io")

\* await copyTemplateFiles(config, projectPath)
GenCopyTemplates ==
  /\ gen.pc = "copy"
  /\ LET withBase == copyDirectoryFiles(files, TemplatesDir \o <<"base">>, GeneratedProjectPath)
         withBaseDirs == copyDirectoryDirs(files, dirs, TemplatesDir \o <<"base">>,
                                           GeneratedProjectPath)
     IN /\ files' = copyDirectoryFiles(withBase, TemplatesDir \o <<"src">>,
                                       GeneratedProjectPath \o <<"src">>)
        /\ dirs' = copyDirectoryDirs(withBase, withBaseDirs, TemplatesDir \o <<"src">>,
                                     GeneratedProjectPath \o <<"src">>)
  /\ GenStep("process", "none")

\* copyTemplateFiles throws, in the first copy or in the second
GenCopyTemplatesFails ==
  /\ gen.pc = "copy"
  /\ \/ UNCHANGED fsVars
     \/ /\ files' = copyDirectoryFiles(files, TemplatesDir \o <<"base">>, GeneratedProjectPath)
        /\ dirs' = copyDirectoryDirs(files, dirs, TemplatesDir \o <<"base">>,
                                     GeneratedProjectPath)
  /\ GenStep("catch", "io")

\* await processTemplateVariables(config, projectPath)
GenProcessTemplates ==
  /\ gen.pc = "process"
  /\ files' = processAllTemplates(files, GeneratedProjectPath,
                                  createTemplateVariables(GeneratedName, gen))
  /\ dirs' = dirs
  /\ GenStep("transport", "none")

\* processTemplateVariables throws, before any template or after some
GenProcessTemplatesFails ==
  /\ gen.pc = "process"
  /\ \E T \in SUBSET findTemplateFiles(files, GeneratedProjectPath) :
       /\ T # findTemplateFiles(files, GeneratedProjectPath)
       /\ files' = processTemplates(files, T, createTemplateVariables(GeneratedName, gen))
  /\ dirs' = dirs
  /\ GenStep("catch", "io")

\* if (config.transportTypes !== 'both') await removeUnusedTransportCode(...)
GenRemoveUnusedTransport ==
  /\ gen.pc = "transport"
  /\ IF gen.transportTypes # "both" /\ pathExists(files, dirs, serverPath)
     THEN files' = writeFile(files, serverPath,
                             withoutUnusedTransport(gen.transportTypes, files[serverPath]))
     ELSE files' = files
  /\ dirs' = dirs
  /\ GenStep("examples", "none")

\* readFile or writeFile of removeUnusedTransportCode throws
GenRemoveUnusedTransportFails ==
  /\ gen.pc = "transport"
  /\ gen.transportTypes # "both"
  /\ serverPath \in DOMAIN files
  /\ \E text \in afterFailedWrite(files[serverPath]) : files' = writeFile(files, serverPath, text)
  /\ dirs' = dirs
  /\ GenStep("catch", "io")

examplePath == GeneratedProjectPath \o <<"src", "services", "example.ts">>

\* if (!config.includeExamples) await removeExampleCode(projectPath)
GenRemoveExamples ==
  /\ gen.pc = "examples"
  /\ IF ~gen.includeExamples /\ pathExists(files, dirs, serverPath)
     THEN files' = removeFiles(writeFile(files, serverPath, withoutExamples(files[serverPath])),
                               examplePath)
     ELSE files' = files
  /\ dirs' = dirs
  /\ GenStep("install", "none")

\* readFile, writeFile or remove of removeExampleCode throws
GenRemoveExamplesFails ==
  /\ gen.pc = "examples"
  /\ ~gen.includeExamples
  /\ serverPath \in DOMAIN files
  /\ \/ \E text \in afterFailedWrite(files[serverPath]) :
          files' = writeFile(files, serverPath, text)
     \/ files' = writeFile(files, serverPath, withoutExamples(files[serverPath]))
  /\ dirs' = dirs
  /\ GenStep("catch", "io")

\* if (!config.skipInstall) await installDependencies(projectPath, packageManager):
\* the package manager fills node_modules
GenInstall ==
  /\ gen.pc = "install"
  /\ IF gen.skipInstall THEN dirs' = dirs
     ELSE dirs' = ensureDir(dirs, GeneratedProjectPath \o <<"node_modules">>)
  /\ files' = files
  /\ GenStep("statistics", "none")

\* installDependencies throws, with or without a node_modules directory
GenInstallFails ==
  /\ gen.pc = "install"
  /\ ~gen.skipInstall
  /\ dirs' \in {dirs, ensureDir(dirs, GeneratedProjectPath \o <<"node_modules">>)}
  /\ files' = files
  /\ GenStep("catch", "io")

\* await showProjectStatistics(projectPath), which catches its own errors,
\* and the return of generateProject
GenStatistics ==
  /\ gen.pc = "statistics"
  /\ UNCHANGED fsVars
  /\ GenStep("returned", "none")

\* the catch block: if (await fs.pathExists(projectPath)) await fs.remove(projectPath);
\* throw error
GenCleanup ==
  /\ gen.pc = "catch"
  /\ IF pathExists(files, dirs, GeneratedProjectPath)
     THEN /\ files' = removeFiles(files, GeneratedProjectPath)
          /\ dirs' = removeDirs(dirs, GeneratedProjectPath)
     ELSE UNCHANGED fsVars
  /\ GenStep("thrown", gen.error)

\* fs.remove of the catch block throws after removing the files F
GenCleanupFails ==
  /\ gen.pc = "catch"
  /\ pathExists(files, dirs, GeneratedProjectPath)
  /\ \E F \in SUBSET {p \in DOMAIN files : isUnder(GeneratedProjectPath, p)} :
       files' = [p \in DOMAIN files \ F |-> files[p]]
  /\ dirs' = dirs
  /\ GenStep("thrown", "io")

GenerateNext ==
  \/ GenValidateTemplates
  \/ GenCheckExists
  \/ GenCreateDirectory
  \/ GenCreateDirectoryFails
  \/ GenCopyTemplates
  \/ GenCopyTemplatesFails
  \/ GenProcessTemplates
  \/ GenProcessTemplatesFails
  \/ GenRemoveUnusedTransport
  \/ GenRemoveUnusedTransportFails
  \/ GenRemoveExamples
  \/ GenRemoveExamplesFails
  \/ GenInstall
  \/ GenInstallFails
  \/ GenStatistics
  \/ GenCleanup
  \/ GenCleanupFails

SpecGenerate == GenerateInit /\ [][GenerateNext]_vars

\* the target directory was there before the call
TargetExisted == GeneratedProjectPath \in gen.preDirs

\* every file and directory under the target is as it was before the call
TargetUntouched ==
  /\ \A p \in DOMAIN gen.preFiles :
       isUnder(GeneratedProjectPath, p) => p \in DOMAIN files /\ files[p] = gen.preFiles[p]
  /\ \A d \in gen.preDirs : isUnder(GeneratedProjectPath, d) => d \in dirs

\* C30: generateProject never deletes a directory it did not create: when
\* the target directory exists before the call, the call fails, with the
\* already-exists error when the templates are in place, and the directory
\* and its contents are as they were.
C30_NeverDeletesPreExisting ==
  (gen.pc = "thrown" /\ TargetExisted)
    => /\ TargetUntouched
       /\ validateTemplatesDirectory(gen.preFiles, gen.preDirs) => gen.error = "exists"

\* ------------------------------------------------------------------------
\* Several runs of the add command on one project (C28, C29)
\* ------------------------------------------------------------------------

MaxRuns == 2

\* the kinds and names given to the runs
RunTypes == {"tool", "util"}

RunNames == {"foo", " Foo ", "bar"}

\* the manifests of a project that detectMcpProject accepts
ValidManifests ==
  {m \in ManifestTexts :
     detectMcpProject(LayoutFiles(m, "none", FALSE), LayoutDirs(m, "none", FALSE),
                      ProjectPath).isValidProject}

\* a generated project, and the first run of the add command about to start
RunsInit ==
  /\ PatchIdle
  /\ SideIdle
  /\ \E manifest \in ValidManifests :
       /\ files = LayoutFiles(manifest, "none", FALSE)
       /\ dirs = LayoutDirs(manifest, "none", FALSE)
  /\ run = 1
  /\ pc = "cli"
  /\ exitCode = -1
  /\ config = NoConfig
  /\ projectContext = NoContext
  /\ template = NoTemplate
  /\ backupPaths = << >>
  /\ nextUpdate = 1
  /\ failedStep = "none"
  /\ restore = "none"
  /\ result = "none"
  /\ preFiles = files
  /\ preDirs = dirs

\* the add command is given a valid kind and name and the configuration is
\* confirmed: addComponent is called
RunAdd ==
  /\ pc = "cli"
  /\ \E type \in RunTypes, name \in RunNames :
       /\ validateComponentName(name, type)
       /\ config' = [componentType |-> type, componentName |-> name, skipValidation |-> FALSE]
  /\ pc' = "detect"
  /\ UNCHANGED <<patchVars, sideVars, fsVars, run, exitCode, projectContext, template, backupPaths,
                 nextUpdate, failedStep, restore, result, preFiles, preDirs>>

\* the process has ended and the command is started again on the project
\* as the run left it
NextRun ==
  /\ pc = "exited"
  /\ run < MaxRuns
  /\ history' = Append(history, [componentType |-> config.componentType,
                                 componentName |-> config.componentName,
                                 result |-> result, failedStep |-> failedStep,
                                 restore |-> restore])
  /\ run' = run + 1
  /\ pc' = "cli"
  /\ exitCode' = -1
  /\ config' = NoConfig
  /\ projectContext' = NoContext
  /\ template' = NoTemplate
  /\ backupPaths' = << >>
  /\ nextUpdate' = 1
  /\ failedStep' = "none"
  /\ restore' = "none"
  /\ result' = "none"
  /\ preFiles' = files
  /\ preDirs' = dirs
  /\ UNCHANGED <<patchVars, fsVars, nameVars, indexVars, listIndex, partial, conc, gen>>

RunsNext ==
  \/ RunAdd
  \/ Detect \/ CheckExists \/ Generate
  \/ Backup \/ BackupFails
  \/ WriteComponentFile \/ WriteComponentFileFails
  \/ UpdateIndex \/ UpdateIndexFails
  \/ ApplyRegistryUpdate \/ ApplyRegistryUpdateFails
  \/ Succeed
  \/ Restore \/ RestoreFails
  \/ CliError \/ CliReturned
  \/ NextRun

SpecRuns == RunsInit /\ [][RunsNext]_vars

\* the manifest, the source root and the five required files are in place
RequiredFilesInPlace ==
  /\ ProjectPath \o <<"package.json">> \in DOMAIN files
  /\ ProjectPath \o <<"src">> \in dirs
  /\ \A i \in 1..Len(requiredFiles) : ProjectPath \o <<"src">> \o requiredFiles[i] \in DOMAIN files

\* C28: in a project that detectMcpProject accepts, after any sequence of
\* addComponent runs, successful or failed, detectMcpProject still accepts
\* it: no run removes or renames the manifest, the source root or a
\* required file.
C28_ProjectStaysValid ==
  /\ detectMcpProject(files, dirs, ProjectPath).isValidProject
  /\ RequiredFilesInPlace

\* a successful run followed by a run whose registry update failed and whose
\* restore failed as well
C28_Witness ==
  /\ run = 2
  /\ pc = "exited"
  /\ failedStep = "patch"
  /\ restore = "failed"
  /\ history[1].result = "success"
  /\ files # preFiles
  /\ detectMcpProject(files, dirs, ProjectPath).isValidProject

\* trim, white-space runs to hyphens, lower case
NormalisedName(name) == toLowerCase(replaceWs(trim(name), 0))

\* an earlier run succeeded for the kind of this run and a name that
\* normalises to the same file name
AddedBefore ==
  /\ config # NoConfig
  /\ \E i \in 1..Len(history) :
       /\ history[i].result = "success"
       /\ history[i].componentType = config.componentType
       /\ NormalisedName(history[i].componentName) = NormalisedName(config.componentName)

\* C29: after addComponent succeeded for a kind and a name, every later
\* addComponent for that kind and a name that normalises to the same file
\* name stops at the existence check and changes no file.
C29_SecondAddStopsAtExistenceCheck ==
  AddedBefore
    => /\ pc \in {"detect", "checkExists", "returned", "exited"}
       /\ pc \in {"returned", "exited"} => result = "exists"
       /\ files = preFiles
       /\ dirs = preDirs

\* a second run for a differently spelt name of the component the first
\* run added has stopped at the existence check
C29_Witness ==
  /\ AddedBefore
  /\ history[1].componentName # config.componentName
  /\ pc = "exited"
  /\ result = "exists"
  /\ exitCode = 0

\* ------------------------------------------------------------------------
\* Two invocations of addComponent on one project at the same time (C26)
\* ------------------------------------------------------------------------

\* the tool component each invocation adds
ConcName(i) == IF i = 1 THEN "foo" ELSE "bar"

ConcTemplate(i) == generateComponentTemplate("tool", ConcName(i))

ConcUpdate(i) == ConcTemplate(i).registryUpdates[1]

\* the registry file of the tools, which is their index file as well
ToolRegistryPath == registryPathOf(ValidContext, ConcUpdate(1))

\* both invocations have passed detection and the existence check of a
\* generated project and are about to take their snapshots
ConcurrentInit ==
  /\ PatchIdle
  /\ WorkflowIdle
  /\ NameIdle
  /\ IndexIdle
  /\ listIndex = 0
  /\ partial = "none"
  /\ history = << >>
  /\ gen = NoGeneration
  /\ \E manifest \in ValidManifests :
       /\ files = LayoutFiles(manifest, "none", FALSE)
       /\ dirs = LayoutDirs(manifest, "none", FALSE)
  /\ conc = [i \in Invocations |-> [pc |-> "backup", read |-> "", backupPaths |-> << >>]]

\* invocation i moves to step next, having read the text read
ConcStep(i, next, read) ==
  /\ conc' = [conc EXCEPT ![i].pc = next, ![i].read = read]
  /\ UNCHANGED <<patchVars, addVars, nameVars, indexVars, listIndex, partial, history, gen>>

\* backupPaths = await backupRegistryFiles(projectContext)
ConcBackup(i) ==
  /\ conc[i].pc = "backup"
  /\ LET n == Len(existingRegistryFiles(files, dirs, ValidContext))
     IN /\ files' = backupFiles(files, dirs, ValidContext, i, n)
        /\ dirs' = backupDirs(files, dirs, ValidContext, i, n)
  /\ conc' = [conc EXCEPT ![i].pc = "write",
                          ![i].backupPaths = backupPathsOf(files, dirs, ValidContext, i)]
  /\ UNCHANGED <<patchVars, addVars, nameVars, indexVars, listIndex, partial, history, gen>>

\* ensureDir(componentDir) and writeFile(filePath, templateContent)
ConcWriteComponent(i) ==
  /\ conc[i].pc = "write"
  /\ dirs' = ensureDir(dirs, componentDirOf(ValidContext, "tool"))
  /\ files' = writeFile(files, componentPathOf(ValidContext, "tool", ConcName(i)),
                        ConcTemplate(i).templateContent)
  /\ ConcStep(i, "indexRead", "")

\* updateComponentIndex up to its readFile and the test of the export name
ConcIndexRead(i) ==
  /\ conc[i].pc = "indexRead"
  /\ UNCHANGED fsVars
  /\ IF ~pathExists(files, dirs, indexPathOf(ValidContext, "tool"))
     THEN ConcStep(i, "catch", "")
     ELSE IF indexAlreadyExports(files[indexPathOf(ValidContext, "tool")],
                                 ConcTemplate(i).indexUpdateContent)
     THEN ConcStep(i, "patchRead", "")
     ELSE ConcStep(i, "indexWrite", files[indexPathOf(ValidContext, "tool")])

\* the writeFile of updateComponentIndex
ConcIndexWrite(i) ==
  /\ conc[i].pc = "indexWrite"
  /\ files' = writeFile(files, indexPathOf(ValidContext, "tool"),
                        updatedIndexContent(conc[i].read, ConcTemplate(i).indexUpdateContent))
  /\ dirs' = dirs
  /\ ConcStep(i, "patchRead", "")

\* the writeFile of updateComponentIndex throws
ConcIndexWriteFails(i) ==
  /\ conc[i].pc = "indexWrite"
  /\ \E text \in afterFailedWrite(files[indexPathOf(ValidContext, "tool")]) :
       files' = writeFile(files, indexPathOf(ValidContext, "tool"), text)
  /\ dirs' = dirs
  /\ ConcStep(i, "catch", "")

\* the registry update up to its readFile
ConcPatchRead(i) ==
  /\ conc[i].pc = "patchRead"
  /\ UNCHANGED fsVars
  /\ IF ~pathExists(files, dirs, registryPathOf(ValidContext, ConcUpdate(i)))
     THEN ConcStep(i, "catch", "")
     ELSE ConcStep(i, "patchWrite", files[registryPathOf(ValidContext, ConcUpdate(i))])

\* a registry update that patches the text the file holds when it writes
ConcPatchWriteRereading(i) ==
  /\ conc[i].pc = "patchWrite"
  /\ files' = writeFile(files, registryPathOf(ValidContext, ConcUpdate(i)),
                        applyOneUpdate(files[registryPathOf(ValidContext, ConcUpdate(i))],
                                       ConcUpdate(i)))
  /\ dirs' = dirs
  /\ ConcStep(i, "success", "")

\* the registry update from the text read to its writeFile, and the
\* success report of addComponent
ConcPatchWrite(i) ==
  /\ conc[i].pc = "patchWrite"
  /\ files' = writeFile(files, registryPathOf(ValidContext, ConcUpdate(i)),
                        applyOneUpdate(conc[i].read, ConcUpdate(i)))
  /\ dirs' = dirs
  /\ ConcStep(i, "success", "")

\* the writeFile of the registry update throws
ConcPatchWriteFails(i) ==
  /\ conc[i].pc = "patchWrite"
  /\ \E text \in afterFailedWrite(files[registryPathOf(ValidContext, ConcUpdate(i))]) :
       files' = writeFile(files, registryPathOf(ValidContext, ConcUpdate(i)), text)
  /\ dirs' = dirs
  /\ ConcStep(i, "catch", "")

\* the catch block: restoreRegistryFiles from the invocation's own
\* snapshot, and the rethrow
ConcRestore(i) ==
  /\ conc[i].pc = "catch"
  /\ files' = restoreFiles(files, ValidContext, conc[i].backupPaths, Len(conc[i].backupPaths))
  /\ dirs' = dirs
  /\ ConcStep(i, "failed", "")

\* a step of invocation i
ConcNextOf(i) ==
  \/ ConcBackup(i)
  \/ ConcWriteComponent(i)
  \/ ConcIndexRead(i)
  \/ ConcIndexWrite(i)
  \/ ConcIndexWriteFails(i)
  \/ ConcPatchRead(i)
  \/ ConcPatchWrite(i)
  \/ ConcPatchWriteFails(i)
  \/ ConcRestore(i)

ConcurrentNext == \E i \in Invocations : ConcNextOf(i)

SpecConcurrent == ConcurrentInit /\ [][ConcurrentNext]_vars

\* the import and the registration of invocation i are in the registry file
Registered(i) ==
  /\ includes(files[ToolRegistryPath], ConcUpdate(i).addImport)
  /\ includes(files[ToolRegistryPath], ConcUpdate(i).addRegistration)

\* the snapshot invocation i took of the tool registry
SnapshotOf(i) ==
  LET K == {k \in 1..Len(conc[i].backupPaths) :
              originalPathOf(ValidContext, conc[i].backupPaths[k]) = ToolRegistryPath}
  IN files[conc[i].backupPaths[CHOOSE k \in K : TRUE]]

\* what an invocation writes to the registry file comes from the text it
\* read or the snapshot it took, whatever the file holds when it writes
WritesFromOwnCopy ==
  \A i \in Invocations :
    /\ (conc[i].pc = "indexWrite" /\ conc'[i].pc = "patchRead")
         => files'[ToolRegistryPath]
              = updatedIndexContent(conc[i].read, ConcTemplate(i).indexUpdateContent)
    /\ (conc[i].pc = "patchWrite" /\ conc'[i].pc = "success")
         => files'[ToolRegistryPath] = applyOneUpdate(conc[i].read, ConcUpdate(i))
    /\ (conc[i].pc = "catch" /\ conc'[i].pc = "failed")
         => files'[ToolRegistryPath] = SnapshotOf(i)

\* C26: two interleaved add invocations are unsafe: each writes the
\* registry file from the text it read earlier, or restores it from its own
\* snapshot, whatever the other has written meanwhile; so an invocation
\* that reported success can have its import or registration missing from
\* the final registry file (the state of C26_Witness), while the one that
\* wrote last has both.
C26_UnsafeReadModifyWrite ==
  /\ []((\A i \in Invocations : conc[i].pc = "success") => \E i \in Invocations : Registered(i))
  /\ [][WritesFromOwnCopy]_vars

\* both invocations have reported success, and the import or the
\* registration of one of them is not in the registry file
C26_Witness ==
  /\ \A i \in Invocations : conc[i].pc = "success"
  /\ \E i \in Invocations : ~Registered(i)

====
